---- MODULE Spec2Model ----
(***************************************************************************)
(* d3-mcp-server: the TTL file cache shared by the three fetchers          *)
(* (fetch_page, fetch_gallery, fetch_notebook), the key -> file mapping,   *)
(* and the notebook assembly that produces what fetch_notebook caches.     *)
(*                                                                         *)
(* Text is modelled two ways.  Where the code indexes or strips            *)
(* characters (cache keys, example paths) a text is a sequence of          *)
(* one-character strings.  Where the code only builds and compares text    *)
(* (documents, messages) it is a TLA+ string built with \o.                *)
(***************************************************************************)
EXTENDS Integers, Sequences, FiniteSets, TLC

VARIABLES
    cache,      \* the files under CACHE_DIR: location -> [content, mtime]
    now,        \* time.time(), in seconds
    calls,      \* the tool calls in flight, one record per caller
    input,      \* argument handed to the function under study
    fn,         \* the function applied to input ("none" before); in Spec,
                \* the fetcher whose calls the behaviour follows
    output      \* what that function returned

vars == <<cache, now, calls, input, fn, output>>

(***************************************************************************)
(* Bounds of the model.                                                    *)
(***************************************************************************)
MaxKeyTokens == 5       \* a key is at most this many tokens long
MaxProbeTokens == 3     \* length of the keys a mapped key is compared with
MaxCells == 2           \* function declarations in a notebook source
MaxChunks == 2          \* chunks of a gallery page
MaxDays == 1            \* the clock stops after this many TTL periods
MaxEscChars == 3        \* characters of a text given to _unescape_js
MaxLoopTokens == 3      \* a function body scanned one loop iteration at a time
MaxNameChars == 4       \* characters of a module name or page path to resolve
MaxDocTokens == 4       \* pieces of a markdown document handed to parse_sections
MaxPages == 12          \* pages selected for one search of the documentation
MaxQueryChars == 3      \* characters in a search query
MaxRecords == 2         \* records (examples, sections) handed to a search
MaxScanTokens == 4      \* a function body handed to the brace scanner

(***************************************************************************)
(* Python string helpers, on sequences of characters.                      *)
(***************************************************************************)
RECURSIVE Str(_)
Str(s) == IF s = <<>> THEN "" ELSE Head(s) \o Str(Tail(s))

Chars(str) ==
    CASE str = ".md" -> <<".", "m", "d">>
      [] str = "@"   -> <<"@">>
      [] str = "/"   -> <<"/">>

\* str.removeprefix in place of str.lstrip: one leading character goes, not all.
lstrip_One(s, cs) ==
    IF s # <<>> /\ Head(s) \in cs THEN Tail(s) ELSE s

RECURSIVE lstrip(_, _)
lstrip(s, cs) ==
    IF s # <<>> /\ Head(s) \in cs THEN lstrip(Tail(s), cs) ELSE s

RECURSIVE rstrip(_, _)
rstrip(s, cs) ==
    IF s # <<>> /\ s[Len(s)] \in cs THEN rstrip(SubSeq(s, 1, Len(s) - 1), cs) ELSE s

Whitespace == {" ", "\n", "\t"}

strip(s) == rstrip(lstrip(s, Whitespace), Whitespace)

startswith(s, prefix) ==
    Len(s) >= Len(prefix) /\ SubSeq(s, 1, Len(prefix)) = prefix

lowerChar(c) == CASE c = "A" -> "a" [] c = "B" -> "b" [] OTHER -> c

upperChar(c) == CASE c = "a" -> "A" [] c = "b" -> "B" [] OTHER -> c

capitalize(s) ==
    [i \in 1..Len(s) |-> IF i = 1 THEN upperChar(s[i]) ELSE lowerChar(s[i])]

lower(s) == [i \in 1..Len(s) |-> lowerChar(s[i])]

(***************************************************************************)
(* pathlib.  A Path is its sequence of parts; an absolute one starts with  *)
(* the part "/".  Building a path drops empty and "." components and       *)
(* keeps ".." ones; joining an absolute text onto a path replaces it.      *)
(***************************************************************************)
RECURSIVE SplitSlash(_, _)
SplitSlash(s, cur) ==
    IF s = <<>> THEN <<cur>>
    ELSE IF Head(s) = "/" THEN <<cur>> \o SplitSlash(Tail(s), <<>>)
    ELSE SplitSlash(Tail(s), Append(cur, Head(s)))

PathParts(s) ==
    LET comps == SplitSlash(s, <<>>)
        kept  == SelectSeq(comps, LAMBDA c : c # <<>> /\ c # <<".">>)
    IN  [i \in 1..Len(kept) |-> Str(kept[i])]

PathJoin(base, s) ==
    IF s # <<>> /\ Head(s) = "/" THEN <<"/">> \o PathParts(s)
    ELSE base \o PathParts(s)

\* What the operating system opens for a path: ".." steps to the parent.
RECURSIVE Resolve(_, _)
Resolve(parts, acc) ==
    IF parts = <<>> THEN acc
    ELSE IF Head(parts) = ".."
         THEN Resolve(Tail(parts),
                      IF Len(acc) > 1 THEN SubSeq(acc, 1, Len(acc) - 1) ELSE acc)
         ELSE Resolve(Tail(parts), Append(acc, Head(parts)))

Location(path) == Resolve(path, <<>>)

IsUnder(loc, dir) ==
    Len(loc) > Len(dir) /\ SubSeq(loc, 1, Len(dir)) = dir

(***************************************************************************)
(* cache.py and examples.py: where an entry lives.                         *)
(***************************************************************************)
HOME == <<"/", "home", "user">>

CACHE_DIR == HOME \o <<".cache", "d3-mcp-server">>

_GALLERY_CACHE == CACHE_DIR \o <<"_gallery.json">>

_EXAMPLES_DIR == CACHE_DIR \o <<"examples">>

_cache_path(page) ==
    LET clean == lstrip(page, {"/"})
    IN  PathJoin(CACHE_DIR, clean \o Chars(".md"))

_example_cache_path(path) ==
    LET clean == lstrip(path, {"@", "/"})
    IN  PathJoin(_EXAMPLES_DIR, clean \o Chars(".md"))

(***************************************************************************)
(* modules.py: the static registry, cut down to one module with an index   *)
(* page and one sub-page.                                                  *)
(***************************************************************************)
D3_PAGE_MAP == { <<"/", "a">>, <<"/", "a", "/", "a">> }

resolve_page_path(p) ==
    LET stripped == lower(strip(p))
        path == IF startswith(stripped, Chars("/")) THEN stripped
                ELSE Chars("/") \o stripped
    IN  IF path \in D3_PAGE_MAP THEN path ELSE <<>>

\* server.py get_example: the key it hands to fetch_notebook.
get_example_key(p) ==
    LET path == strip(p)
    IN  IF startswith(path, Chars("@")) THEN path ELSE Chars("@") \o path

(***************************************************************************)
(* examples.py: the notebook scanner.                                      *)
(*                                                                         *)
(* A notebook source is held as what the module's regular expressions      *)
(* find in it:                                                             *)
(*   md       the template contents of the markdown cells, in order, each  *)
(*            a sequence of [kind, text] tokens (kind "tag", "crumb" for   *)
(*            the "D3 > Gallery" breadcrumb, or "text");                   *)
(*   cells    the function declarations, in order: [async, name, params,   *)
(*            rest], params the comma-separated names and rest the source  *)
(*            text that follows the opening brace, up to end of input;     *)
(*   files    the FileAttachment pairs [name, url], in order;              *)
(*   deps     the names in define("chart", [...], _chart), <<>> if none;   *)
(*   modules  the dynamic imports [var, path], path in units;              *)
(*   helpers  the helper definitions [name, var].                          *)
(* Source text is a sequence of units: each special character on its own,  *)
(* and a run of identifier characters as one opaque unit.  The backtick,   *)
(* which a TLA+ string cannot hold, is written ^ throughout.               *)
(***************************************************************************)
At(src, i) == src[i + 1]      \* Python's 0-based source[i]

Quotes == {"\"", "'", "^"}

\* A string-literal loop that takes a backslash for an ordinary character.
RECURSIVE SkipString_NoEscape(_, _, _)
SkipString_NoEscape(src, i, quote) ==
    IF ~(i < Len(src)) THEN i
    ELSE IF At(src, i) = quote THEN i
    ELSE SkipString_NoEscape(src, i + 1, quote)

RECURSIVE SkipString(_, _, _)
SkipString(src, i, quote) ==
    IF ~(i < Len(src)) THEN i
    ELSE IF At(src, i) = "\\" /\ i + 1 < Len(src) THEN SkipString(src, i + 2, quote)
    ELSE IF At(src, i) = quote THEN i
    ELSE SkipString(src, i + 1, quote)

RECURSIVE SkipLineComment(_, _)
SkipLineComment(src, i) ==
    IF i < Len(src) /\ At(src, i) # "\n" THEN SkipLineComment(src, i + 1) ELSE i

RECURSIVE SkipBlockComment(_, _)
SkipBlockComment(src, i) ==
    IF i + 1 < Len(src) /\ ~(At(src, i) = "*" /\ At(src, i + 1) = "/")
    THEN SkipBlockComment(src, i + 1)
    ELSE i

\* The while loop of _extract_function_body: the cursor and depth it ends with.
RECURSIVE ScanBody(_, _, _)
ScanBody(src, i, depth) ==
    IF ~(i < Len(src) /\ depth > 0) THEN [i |-> i, depth |-> depth]
    ELSE LET ch == At(src, i)
         IN  IF ch = "{" THEN ScanBody(src, i + 1, depth + 1)
             ELSE IF ch = "}" THEN ScanBody(src, i + 1, depth - 1)
             ELSE IF ch \in Quotes
                  THEN ScanBody(src, SkipString(src, i + 1, ch) + 1, depth)
             ELSE IF ch = "/" /\ i + 1 < Len(src)
                  THEN LET next_ch == At(src, i + 1)
                       IN  IF next_ch = "/"
                           THEN ScanBody(src, SkipLineComment(src, i) + 1, depth)
                           ELSE IF next_ch = "*"
                           THEN ScanBody(src, SkipBlockComment(src, i + 2) + 2, depth)
                           ELSE ScanBody(src, i + 1, depth)
             ELSE ScanBody(src, i + 1, depth)

\* _extract_function_body(source, start) with rest = source[start:].
_extract_function_body(rest) ==
    LET end == ScanBody(rest, 0, 1)
    IN  IF end.depth = 0 THEN strip(SubSeq(rest, 1, end.i - 1)) ELSE <<>>

NoCell == [found |-> FALSE, params |-> <<>>, body |-> ""]

FirstNamed(cells, name, async) ==
    LET hits == { i \in 1..Len(cells) :
                    cells[i].name = name /\ cells[i].async = async }
    IN  IF hits = {} THEN 0 ELSE CHOOSE i \in hits : \A j \in hits : i <= j

\* A lookup that reports a cell whose body came out empty as not found.
_extract_cell_NoneIfEmpty(source, name) ==
    LET a == FirstNamed(source.cells, name, TRUE)
        f == FirstNamed(source.cells, name, FALSE)
        k == IF a # 0 THEN a ELSE f
    IN  IF k = 0 \/ _extract_function_body(source.cells[k].rest) = <<>> THEN NoCell
        ELSE [found  |-> TRUE,
              params |-> source.cells[k].params,
              body   |-> (IF source.cells[k].async THEN "async " ELSE "")
                         \o Str(_extract_function_body(source.cells[k].rest))]

_extract_cell(source, name) ==
    LET a == FirstNamed(source.cells, name, TRUE)
        f == FirstNamed(source.cells, name, FALSE)
        k == IF a # 0 THEN a ELSE f
    IN  IF k = 0 THEN NoCell
        ELSE [found  |-> TRUE,
              params |-> source.cells[k].params,
              body   |-> (IF source.cells[k].async THEN "async " ELSE "")
                         \o Str(_extract_function_body(source.cells[k].rest))]

RECURSIVE Join(_, _)
Join(parts, sep) ==
    IF parts = <<>> THEN ""
    ELSE IF Len(parts) = 1 THEN parts[1]
    ELSE parts[1] \o sep \o Join(Tail(parts), sep)

_extract_description(source) ==
    IF source.md = <<>> THEN ""
    ELSE LET toks   == source.md[1]
             noTags == SelectSeq(toks, LAMBDA t : t.kind # "tag")
             crumbs == { i \in 1..Len(noTags) : noTags[i].kind = "crumb" }
             first  == IF crumbs = {} THEN 0
                       ELSE CHOOSE i \in crumbs : \A j \in crumbs : i <= j
             kept   == SubSeq(noTags, first + 1, Len(noTags))
         IN  Join([i \in 1..Len(kept) |-> kept[i].text], " ")

\* A dict as the sequence of its items in insertion order.
RECURSIVE DictOf(_)
DictOf(pairs) ==
    IF pairs = <<>> THEN <<>>
    ELSE LET init == DictOf(SubSeq(pairs, 1, Len(pairs) - 1))
             last == pairs[Len(pairs)]
             at   == { i \in 1..Len(init) : init[i].name = last.name }
         IN  IF at = {} THEN Append(init, last)
             ELSE [i \in 1..Len(init) |-> IF i \in at THEN last ELSE init[i]]

_extract_file_attachments(source) == DictOf(source.files)

_find_chart_dependencies(source) == source.deps

OBSERVABLE_BASE_URL == "https://observablehq.com"

CleanModulePath(path) ==
    LET noJs == IF path # <<>> /\ path[Len(path)] = ".js"
                THEN SubSeq(path, 1, Len(path) - 1) ELSE path
    IN  IF startswith(noJs, <<"/", "@">>) THEN noJs
        ELSE <<"/", "@">> \o lstrip(noJs, {"/"})

\* A join that keeps the helpers whose module was not resolved.
_extract_imports_KeepUnresolved(source) ==
    LET module_paths ==
            DictOf([i \in 1..Len(source.modules) |->
                      [name |-> source.modules[i].var,
                       url  |-> Str(CleanModulePath(source.modules[i].path))]])
        PathOf(var) ==
            LET at == { i \in 1..Len(module_paths) : module_paths[i].name = var }
            IN  IF at = {} THEN "" ELSE module_paths[CHOOSE i \in at : TRUE].url
    IN  DictOf([i \in 1..Len(source.helpers) |->
                  [name |-> source.helpers[i].name,
                   url  |-> OBSERVABLE_BASE_URL \o PathOf(source.helpers[i].var)]])

_extract_imports(source) ==
    LET module_paths ==
            DictOf([i \in 1..Len(source.modules) |->
                      [name |-> source.modules[i].var,
                       url  |-> Str(CleanModulePath(source.modules[i].path))]])
        PathOf(var) ==
            LET at == { i \in 1..Len(module_paths) : module_paths[i].name = var }
            IN  IF at = {} THEN "" ELSE module_paths[CHOOSE i \in at : TRUE].url
        resolved == SelectSeq(source.helpers, LAMBDA h : PathOf(h.var) # "")
    IN  DictOf([i \in 1..Len(resolved) |->
                  [name |-> resolved[i].name,
                   url  |-> OBSERVABLE_BASE_URL \o PathOf(resolved[i].var)]])

NoChartText == "No chart code found in this notebook."

\* A bug that keeps the parts gathered so far and appends the message.
NoChartResult_Appended(parts) == Join(Append(parts, NoChartText), "\n\n")

NoChartResult(parts) == NoChartText

\* The cleaned body of a data-loading cell: the return( ... ) wrapper goes.
CleanDataBody(body) ==
    LET clean == strip(body)
    IN  IF startswith(clean, <<"return", "(">>)
        THEN LET opened == lstrip(SubSeq(clean, 3, Len(clean)), Whitespace)
             IN  IF opened # <<>> /\ opened[Len(opened)] = ")"
                 THEN rstrip(SubSeq(opened, 1, Len(opened) - 1), Whitespace)
                 ELSE opened
        ELSE clean

\* The names the dependency comment leaves out.
CommentSkips == {"d3", "invalidation", "width"}

\* The names skipped when looking for data-loading cells.
DataCellSkips == {"d3", "invalidation", "width", "height", "topojson", "DOM"}

RECURSIVE HelperCode(_, _, _)
HelperCode(source, deps, attachments) ==
    IF deps = <<>> THEN <<>>
    ELSE LET dep  == Head(deps)
             rest == HelperCode(source, Tail(deps), attachments)
             cell == LET k == FirstNamed(source.cells, "_" \o dep, TRUE)
                         f == FirstNamed(source.cells, "_" \o dep, FALSE)
                     IN  IF k # 0 THEN k ELSE f
         IN  IF dep \in DataCellSkips
             THEN rest
             ELSE IF cell # 0
                     /\ (\E i \in 1..Len(source.cells[cell].params) :
                            source.cells[cell].params[i] = "FileAttachment")
                     /\ attachments # <<>>
                  THEN <<"// Data: " \o dep,
                         "// " \o Str(CleanDataBody(
                                    _extract_function_body(source.cells[cell].rest)))>>
                       \o rest
                  ELSE rest

\* Steps 6 to 8: the code lines are joined and fenced, and the lists of
\* imported helpers and of data files follow.
AssembleDocument(parts0, code_lines, imports, attachments) ==
    LET code    == Join(code_lines, "\n")
        parts1  == Append(parts0, "^^^js\n" \o code \o "\n^^^")
        parts2  == IF imports # <<>>
                   THEN parts1 \o <<"**Imported helpers:**">>
                        \o [i \in 1..Len(imports) |->
                             "- ^" \o imports[i].name \o "^ from ["
                             \o imports[i].url \o "](" \o imports[i].url \o ")"]
                   ELSE parts1
        parts3  == IF attachments # <<>>
                   THEN parts2 \o <<"**Data files:**">>
                        \o [i \in 1..Len(attachments) |->
                             "- ^" \o attachments[i].name \o "^: "
                             \o attachments[i].url]
                   ELSE parts2
    IN  Join(parts3, "\n\n")

CodeLines(d3_deps, helper_code, body) ==
    LET lines1 == IF d3_deps # <<>>
                  THEN <<"// Dependencies: " \o Join(d3_deps, ", ")>>
                  ELSE <<>>
        lines2 == IF helper_code # <<>>
                  THEN lines1 \o helper_code \o <<"">>
                  ELSE lines1
    IN  Append(lines2, body)

extract_notebook_code(source) ==
    LET description == _extract_description(source)
        parts0      == IF description # "" THEN <<description>> ELSE <<>>
        attachments == _extract_file_attachments(source)
        chart_deps  == _find_chart_dependencies(source)
        helper_code == HelperCode(source, chart_deps, attachments)
        chart_cell  == _extract_cell(source, "_chart")
    IN  IF ~chart_cell.found THEN NoChartResult(parts0)
        ELSE LET d3_deps == SelectSeq(chart_cell.params,
                                LAMBDA q : q \notin CommentSkips)
             IN  AssembleDocument(parts0,
                                  CodeLines(d3_deps, helper_code, chart_cell.body),
                                  _extract_imports(source), attachments)

(***************************************************************************)
(* The keys a caller can send.                                             *)
(***************************************************************************)
Tokens == { <<"/">>, <<"@">>, <<".", ".">>, <<"a">>, <<"A">>, <<" ">> }

RECURSIVE KeysOfLen(_)
KeysOfLen(n) ==
    IF n = 0 THEN { <<>> }
    ELSE { t \o k : t \in Tokens, k \in KeysOfLen(n - 1) }

Keys == UNION { KeysOfLen(n) : n \in 0..MaxKeyTokens }

ProbeKeys == UNION { KeysOfLen(n) : n \in 0..MaxProbeTokens }

NoLocation == <<>>

(***************************************************************************)
(* The mapping under study: one key is drawn, one entry point applied.     *)
(***************************************************************************)
InitPaths ==
    /\ cache = <<>>
    /\ now = 0
    /\ calls = <<>>
    /\ input \in Keys
    /\ fn = "none"
    /\ output = NoLocation

ApplyCachePath ==
    /\ fn = "none"
    /\ fn' = "_cache_path"
    /\ output' = Location(_cache_path(input))
    /\ UNCHANGED <<cache, now, calls, input>>

ApplyExampleCachePath ==
    /\ fn = "none"
    /\ fn' = "_example_cache_path"
    /\ output' = Location(_example_cache_path(input))
    /\ UNCHANGED <<cache, now, calls, input>>

\* server.py doc_page: only a registered page reaches fetch_page.
ApplyDocPage ==
    /\ fn = "none"
    /\ fn' = "doc_page"
    /\ LET resolved == resolve_page_path(input)
       IN  output' = IF resolved = <<>> THEN NoLocation
                     ELSE Location(_cache_path(resolved))
    /\ UNCHANGED <<cache, now, calls, input>>

\* server.py get_example: any text reaches fetch_notebook.
ApplyGetExample ==
    /\ fn = "none"
    /\ fn' = "get_example"
    /\ output' = Location(_example_cache_path(get_example_key(input)))
    /\ UNCHANGED <<cache, now, calls, input>>

NextPaths ==
    \/ ApplyCachePath
    \/ ApplyExampleCachePath
    \/ ApplyDocPage
    \/ ApplyGetExample

SpecPaths == InitPaths /\ [][NextPaths]_vars

PageLocations == { Location(_cache_path(p)) : p \in D3_PAGE_MAP }

\* C6: for any key x, "/x" and "x" have the same cache location.  Checked on
\* every key drawn: the location computed for the key is the location of the
\* key with one more leading "/", and of the key with one leading "/" less.
C6_LeadingSlashSameLocation ==
    fn = "_cache_path" =>
        /\ output = Location(_cache_path(<<"/">> \o input))
        /\ (input # <<>> /\ Head(input) = "/") =>
               output = Location(_cache_path(Tail(input)))

C6_Witness ==
    /\ fn = "_cache_path"
    /\ input = <<"/", "a">>
    /\ output = CACHE_DIR \o <<"a.md">>

\* C7: every page key and every notebook key a caller can pass maps inside
\* the root cache directory; every notebook key maps inside the examples
\* subdirectory, so never onto a page entry or the gallery index.
C7_LocationsStayInside ==
    /\ (fn = "doc_page" /\ output # NoLocation) => IsUnder(output, CACHE_DIR)
    /\ fn = "get_example" =>
          /\ IsUnder(output, CACHE_DIR)
          /\ IsUnder(output, _EXAMPLES_DIR)
          /\ output \notin PageLocations
          /\ output # _GALLERY_CACHE

\* C8: the mapping is injective up to leading separators: a key that still
\* differs from the drawn key after the leading separators are stripped has
\* a different cache location.
C8_InjectiveUpToLeadingSeparators ==
    /\ fn = "_cache_path" =>
          \A k \in ProbeKeys :
              lstrip(k, {"/"}) # lstrip(input, {"/"}) =>
                  Location(_cache_path(k)) # output
    /\ fn = "_example_cache_path" =>
          \A k \in ProbeKeys :
              lstrip(k, {"@", "/"}) # lstrip(input, {"@", "/"}) =>
                  Location(_example_cache_path(k)) # output


(***************************************************************************)
(* Notebook sources to extract from.                                       *)
(***************************************************************************)
DescriptionCell ==
    << [kind |-> "tag",   text |-> "<div>"],
       [kind |-> "crumb", text |-> "D3 > Gallery"],
       [kind |-> "tag",   text |-> "</div>"],
       [kind |-> "text",  text |-> "Bar"],
       [kind |-> "text",  text |-> "chart."] >>

CellPool ==
    { [async |-> FALSE, name |-> "_chart", params |-> <<"d3", "data">>,
       rest |-> <<"x", "}", "\n">>],
      [async |-> TRUE, name |-> "_chart", params |-> <<"d3", "width", "height", "us">>,
       rest |-> <<"'", "}", "'", ";", "}">>],
      [async |-> FALSE, name |-> "_chart", params |-> <<"d3">>,
       rest |-> <<"{", "x", "}">>],
      [async |-> TRUE, name |-> "_chart", params |-> <<"d3">>,
       rest |-> <<"/", "*", "}">>],
      [async |-> FALSE, name |-> "_data", params |-> <<"FileAttachment">>,
       rest |-> <<"return", "(", "\n", "f", "\n", ")", "}">>],
      [async |-> FALSE, name |-> "_1", params |-> <<"md">>,
       rest |-> <<"return", "(", "md", ")", "}">>] }

RECURSIVE SeqsUpTo(_, _)
SeqsUpTo(S, n) ==
    IF n = 0 THEN { <<>> }
    ELSE LET shorter == SeqsUpTo(S, n - 1)
         IN  shorter \cup { Append(q, x) : q \in shorter, x \in S }

ImportChoices ==
    { [modules |-> <<>>, helpers |-> <<>>],
      [modules |-> << [var |-> "module 1",
                        path |-> <<"/", "d3/color-legend", ".js">>] >>,
       helpers |-> << [name |-> "Legend", var |-> "module 1"],
                      [name |-> "Swatches", var |-> "module 2"] >>],
      [modules |-> << [var |-> "module 1",
                        path |-> <<"/", "@", "d3/color-legend">>],
                       [var |-> "module 2",
                        path |-> <<"/", "d3/x", ".js">>],
                       [var |-> "module 2",
                        path |-> <<"/", "/", "d3/y">>] >>,
       helpers |-> << [name |-> "Legend", var |-> "module 3"],
                      [name |-> "Legend", var |-> "module 1"],
                      [name |-> "Swatches", var |-> "module 2"] >>] }

Notebooks ==
    { [md |-> m, cells |-> cs, files |-> fs, deps |-> ds,
       modules |-> im.modules, helpers |-> im.helpers] :
        m  \in { <<>>, <<DescriptionCell>> },
        cs \in SeqsUpTo(CellPool, MaxCells),
        fs \in { <<>>, << [name |-> "alphabet.csv", url |-> "https://static/a.csv"] >> },
        ds \in { <<>>, <<"d3", "data">> },
        im \in ImportChoices }

InitNotebook ==
    /\ cache = <<>>
    /\ now = 0
    /\ calls = <<>>
    /\ input \in Notebooks
    /\ fn = "none"
    /\ output = ""

ApplyExtractNotebookCode ==
    /\ fn = "none"
    /\ fn' = "extract_notebook_code"
    /\ output' = extract_notebook_code(input)
    /\ UNCHANGED <<cache, now, calls, input>>

ApplyExtractImports ==
    /\ fn = "none"
    /\ fn' = "_extract_imports"
    /\ output' = _extract_imports(input)
    /\ UNCHANGED <<cache, now, calls, input>>

NextNotebook ==
    \/ ApplyExtractNotebookCode
    \/ ApplyExtractImports

SpecNotebook == InitNotebook /\ [][NextNotebook]_vars

\* C25: import extraction joins the helper definitions with the dynamic
\* imports: a helper name is in the result iff a definition of it names a
\* module identifier that has an import, it is there once, and its value is
\* "https://observablehq.com" followed by the imported path made to start
\* with "/@" and freed of its ".js" suffix.
C25_ImportsAreJoinOfTwoMaps ==
    fn = "_extract_imports" =>
        LET modules == input.modules
            helpers == input.helpers
            Resolved(var) == \E i \in 1..Len(modules) : modules[i].var = var
            PathOf(var) ==
                modules[CHOOSE i \in 1..Len(modules) :
                            /\ modules[i].var = var
                            /\ \A j \in (i + 1)..Len(modules) : modules[j].var # var].path
            Normal(path) ==
                LET noJs == IF path[Len(path)] = ".js"
                            THEN SubSeq(path, 1, Len(path) - 1) ELSE path
                    core == SelectSeq(noJs, LAMBDA u : u \notin {"/", "@"})
                IN  "/@" \o Str(core)
            Last(name) ==
                helpers[CHOOSE i \in 1..Len(helpers) :
                            /\ helpers[i].name = name /\ Resolved(helpers[i].var)
                            /\ \A j \in (i + 1)..Len(helpers) :
                                   ~(helpers[j].name = name /\ Resolved(helpers[j].var))]
        IN  /\ { output[k].name : k \in 1..Len(output) }
                   = { helpers[i].name : i \in { j \in 1..Len(helpers) :
                                                   Resolved(helpers[j].var) } }
            /\ \A k, l \in 1..Len(output) : output[k].name = output[l].name => k = l
            /\ \A k \in 1..Len(output) :
                   output[k].url = "https://observablehq.com"
                                       \o Normal(PathOf(Last(output[k].name).var))

C25_Witness ==
    /\ fn = "_extract_imports"
    /\ Len(input.helpers) = 2
    /\ output = << [name |-> "Legend",
                    url |-> "https://observablehq.com/@d3/color-legend"] >>

\* C28: a chart cell whose declaration is found but whose braces never
\* balance before the end of the source is still a found cell, with the
\* empty body (after "async " for an async cell), and the document is the
\* one with an empty code body, not the no-chart text.
C28_UnbalancedChartGivesEmptyBlock ==
    fn = "extract_notebook_code" =>
        LET cells  == input.cells
            Charts(async) == { i \in 1..Len(cells) :
                                 cells[i].name = "_chart" /\ cells[i].async = async }
            First(S) == CHOOSE i \in S : \A j \in S : i <= j
            k == IF Charts(TRUE) # {} THEN First(Charts(TRUE))
                 ELSE IF Charts(FALSE) # {} THEN First(Charts(FALSE)) ELSE 0
            description == _extract_description(input)
            parts0      == IF description # "" THEN <<description>> ELSE <<>>
            attachments == _extract_file_attachments(input)
            annotations == HelperCode(input, _find_chart_dependencies(input),
                                      attachments)
        IN  (k # 0 /\ ScanBody(cells[k].rest, 0, 1).depth > 0) =>
                LET body   == IF cells[k].async THEN "async " ELSE ""
                    listed == SelectSeq(cells[k].params,
                                        LAMBDA q : q \notin CommentSkips)
                IN  /\ _extract_cell(input, "_chart")
                           = [found |-> TRUE, params |-> cells[k].params, body |-> body]
                    /\ output # NoChartText
                    /\ output = AssembleDocument(parts0,
                                    CodeLines(listed, annotations, body),
                                    _extract_imports(input), attachments)

C28_Witness ==
    /\ fn = "extract_notebook_code"
    /\ Len(input.cells) = 1
    /\ input.cells[1].rest = <<"{", "x", "}">>
    /\ input.md = <<>>
    /\ input.files = <<>>
    /\ input.helpers = <<>>
    /\ output = "^^^js\n\n^^^"

\* C22: the document has its parts in the order description, code block,
\* imported helpers, data files, and inside the code block the data-cell
\* annotations come before the dependency comment, which comes before the
\* chart cell's body.  Stated for a chart that has both annotations and a
\* dependency comment; the empty line that closes the annotations may stand
\* after them, after the comment, or be left out.
C22_PartsInFixedOrder ==
    (/\ fn = "extract_notebook_code"
     /\ _extract_cell(input, "_chart").found)
    => LET description == _extract_description(input)
           parts0      == IF description # "" THEN <<description>> ELSE <<>>
           attachments == _extract_file_attachments(input)
           annotations == HelperCode(input, _find_chart_dependencies(input),
                                     attachments)
           chart_cell  == _extract_cell(input, "_chart")
           listed      == SelectSeq(chart_cell.params, LAMBDA q : q \notin CommentSkips)
           comment     == "// Dependencies: " \o Join(listed, ", ")
           Document(code_lines) ==
               AssembleDocument(parts0, code_lines, _extract_imports(input),
                                attachments)
       IN  (annotations # <<>> /\ listed # <<>>) =>
               output \in
                   { Document(annotations \o <<"", comment, chart_cell.body>>),
                     Document(annotations \o <<comment, "", chart_cell.body>>),
                     Document(annotations \o <<comment, chart_cell.body>>) }

\* C23: the dependency comment lists the chart cell's parameters that are
\* not one of d3, invalidation, width, height, topojson and DOM, in
\* parameter order, and is left out when none remains.
C23_CommentListsNonEnvironmentParams ==
    (/\ fn = "extract_notebook_code"
     /\ _extract_cell(input, "_chart").found)
    => LET description == _extract_description(input)
           parts0      == IF description # "" THEN <<description>> ELSE <<>>
           attachments == _extract_file_attachments(input)
           annotations == HelperCode(input, _find_chart_dependencies(input),
                                     attachments)
           chart_cell  == _extract_cell(input, "_chart")
           listed      == SelectSeq(chart_cell.params,
                              LAMBDA q : q \notin {"d3", "invalidation", "width",
                                                   "height", "topojson", "DOM"})
       IN  output = AssembleDocument(parts0,
                                     CodeLines(listed, annotations, chart_cell.body),
                                     _extract_imports(input), attachments)

\* C5: a source with no function cell named _chart extracts to exactly the
\* fixed text "No chart code found in this notebook.", with nothing of the
\* description, code block, imports or data files around it.
C5_NoChartSentinel ==
    (fn = "extract_notebook_code"
       /\ \A i \in 1..Len(input.cells) : input.cells[i].name # "_chart")
    => output = "No chart code found in this notebook."

C5_Witness ==
    /\ fn = "extract_notebook_code"
    /\ \A i \in 1..Len(input.cells) : input.cells[i].name # "_chart"
    /\ input.md # <<>>
    /\ input.files # <<>>
    /\ input.helpers # <<>>
    /\ Len(input.cells) = 2
    /\ output = "No chart code found in this notebook."


(***************************************************************************)
(* cache.py, examples.py: the three fetchers over the file cache.          *)
(*                                                                         *)
(* A fetcher runs on the event loop: from its start to the await of the    *)
(* HTTP GET is one step, and from the GET's outcome to its return or       *)
(* raise is another.  Between the two any other call may run.  (The        *)
(* awaits of ctx.info change nothing and are folded into these steps.)     *)
(***************************************************************************)
CACHE_TTL_SECONDS == 24 * 60 * 60

BASE_URL == "https://d3js.org"

GALLERY_URL == "https://observablehq.com/@d3/gallery"

NOTEBOOK_API_URL == "https://api.observablehq.com"

Callers == {"c1", "c2"}

\* The fetchers share no file and no variable but the clock, so a behaviour
\* follows the calls made to one of them, the one fn names.
Fetchers == {"fetch_page", "fetch_gallery", "fetch_notebook"}

\* The pages and the examples asked for here.
FetchedPages == D3_PAGE_MAP

ExamplePaths == { <<"a">>, <<"@", "a", "/", "a">> }

\* What a call gave its caller: the text or the example list it returned,
\* or the exception it raised (its class and message).
NoResult == [kind |-> "none", type |-> "", text |-> "", examples |-> <<>>]

Ok(text) == [kind |-> "ok", type |-> "", text |-> text, examples |-> <<>>]

OkExamples(xs) == [kind |-> "ok", type |-> "", text |-> "", examples |-> xs]

Raise(type, msg) == [kind |-> "raise", type |-> type, text |-> msg, examples |-> <<>>]

Idle == [pc |-> "idle", op |-> "none", key |-> <<>>, gets |-> 0, result |-> NoResult]

\* A freshness test that never trusts the file: every call fetches.
_is_fresh_Never(path) == FALSE

\* time.time() - st_mtime < TTL; written <= here is the off-by-one bug.
_is_fresh_Inclusive(path) ==
    /\ Location(path) \in DOMAIN cache
    /\ now - cache[Location(path)].mtime <= CACHE_TTL_SECONDS

_is_fresh(path) ==
    /\ Location(path) \in DOMAIN cache
    /\ now - cache[Location(path)].mtime < CACHE_TTL_SECONDS

read_text(path) == cache[Location(path)].content

write_text(path, content) ==
    (Location(path) :> [content |-> content, mtime |-> now]) @@ cache

\* httpx: Response.raise_for_status raises unless the status is 2xx.
raise_for_status(status) == status \notin 200..299

\* The outcomes of one GET: a timeout, another transport error, a response.
Statuses == {200, 404, 500}

Outcomes(bodies) ==
    { [kind |-> "timeout", status |-> 0, body |-> <<>>],
      [kind |-> "error", status |-> 0, body |-> <<>>] }
    \cup { [kind |-> "response", status |-> st, body |-> b] :
             st \in Statuses, b \in bodies }

TransportErrorText == "connection refused"

(***************************************************************************)
(* fetch_page                                                              *)
(***************************************************************************)
PageHtmls ==
    { << [tag |-> "h1", text |-> "d3-a"], [tag |-> "p", text |-> "one"] >>,
      << [tag |-> "script", text |-> "js"], [tag |-> "p", text |-> "two"] >> }

_html_to_markdown(html) ==
    LET kept == SelectSeq(html, LAMBDA n : n.tag \notin {"script", "style", "img"})
    IN  Join([i \in 1..Len(kept) |->
                IF kept[i].tag = "h1" THEN "# " \o kept[i].text ELSE kept[i].text],
             "\n\n")

\* fetch_page from the GET's outcome on: what the call returns or raises.
FetchPageResult(page, o) ==
    LET url == BASE_URL \o Str(page)
    IN  IF o.kind = "timeout" THEN Raise("ToolError", "Timeout fetching " \o url)
        ELSE IF o.kind = "error"
             THEN Raise("ToolError",
                        "Network error fetching " \o url \o ": " \o TransportErrorText)
        ELSE IF o.status = 404 THEN Raise("ToolError", "Page not found: " \o url)
        ELSE IF raise_for_status(o.status)
             THEN Raise("HTTPStatusError", ToString(o.status))
        ELSE Ok(_html_to_markdown(o.body))

\* A fetcher that starts its write before it has looked at the outcome.
CacheAfter_Early(path, result, content) ==
    IF result.kind = "ok" THEN write_text(path, content)
    ELSE IF Location(path) \in DOMAIN cache THEN write_text(path, "")
    ELSE cache

\* The files after a fetcher has handled its outcome: written only on success.
CacheAfter(path, result, content) ==
    IF result.kind = "ok" THEN write_text(path, content) ELSE cache

\* A fetcher that skips its write when another call has filled the entry.
Overwrite_IfStale(path) == ~_is_fresh(path)

\* path.write_text is unconditional once the content is there.
Overwrite(path) == TRUE

FetchPageStart(c, page) ==
    /\ fn = "fetch_page"
    /\ calls[c].pc \in {"idle", "done"}
    /\ LET path == _cache_path(page)
       IN  calls' = [calls EXCEPT ![c] =
              IF _is_fresh(path)
              THEN [pc |-> "done", op |-> "page", key |-> page, gets |-> 0,
                    result |-> Ok(read_text(path))]
              ELSE [pc |-> "awaiting", op |-> "page", key |-> page, gets |-> 1,
                    result |-> NoResult]]
    /\ UNCHANGED <<cache, now, input, fn, output>>

FetchPageFinish(c, o) ==
    /\ calls[c].pc = "awaiting"
    /\ calls[c].op = "page"
    /\ LET path   == _cache_path(calls[c].key)
           result == FetchPageResult(calls[c].key, o)
       IN  /\ calls' = [calls EXCEPT ![c].pc = "done", ![c].result = result]
           /\ cache' = IF Overwrite(path)
                       THEN CacheAfter(path, result, result.text)
                       ELSE cache
    /\ UNCHANGED <<now, input, fn, output>>

(***************************************************************************)
(* fetch_gallery.  The gallery page is held as its chunks, each with the   *)
(* category name found in it (<<>> if none) and its preview objects.       *)
(***************************************************************************)
GalleryPages ==
    { <<>>,
      << [name |-> <<"b", "a">>, previews |-> <<>>] >>,
      << [name |-> <<"b", "a">>,
          previews |-> << [path |-> "@d3/bar-chart", title |-> "Bar chart",
                           author |-> "D3"] >>] >> }

\* A parse that passes over the chunks in which no category name is found.
RECURSIVE parse_gallery_NamedOnly(_)
parse_gallery_NamedOnly(chunks) ==
    IF chunks = <<>> THEN <<>>
    ELSE LET chunk    == Head(chunks)
             category == Str(capitalize(chunk.name))
         IN  (IF chunk.name = <<>> THEN <<>>
              ELSE [i \in 1..Len(chunk.previews) |->
                      [path |-> chunk.previews[i].path,
                       title |-> chunk.previews[i].title,
                       category |-> category, author |-> chunk.previews[i].author]])
             \o parse_gallery_NamedOnly(Tail(chunks))

RECURSIVE parse_gallery(_)
parse_gallery(chunks) ==
    IF chunks = <<>> THEN <<>>
    ELSE LET chunk    == Head(chunks)
             category == Str(capitalize(chunk.name))
         IN  [i \in 1..Len(chunk.previews) |->
                 [path |-> chunk.previews[i].path, title |-> chunk.previews[i].title,
                  category |-> category, author |-> chunk.previews[i].author]]
             \o parse_gallery(Tail(chunks))

\* json.dumps of the example list, and json.loads, its inverse, of the text.
JsonDumps(examples) ==
    "[" \o Join([i \in 1..Len(examples) |->
                   "{\"path\": \"" \o examples[i].path
                   \o "\", \"title\": \"" \o examples[i].title
                   \o "\", \"category\": \"" \o examples[i].category
                   \o "\", \"author\": \"" \o examples[i].author \o "\"}"],
                ", ") \o "]"

JsonLoads(text) ==
    CHOOSE xs \in { parse_gallery(page) : page \in GalleryPages } : JsonDumps(xs) = text

\* fetch_gallery without its "if not examples" check.
FetchGalleryResult_NoEmptyCheck(o) ==
    IF o.kind = "timeout" THEN Raise("ToolError", "Timeout fetching " \o GALLERY_URL)
    ELSE IF o.kind = "error"
         THEN Raise("ToolError", "Network error fetching gallery: " \o TransportErrorText)
    ELSE IF o.status # 200
         THEN Raise("ToolError",
                    "Failed to fetch gallery (HTTP " \o ToString(o.status) \o ")")
    ELSE OkExamples(parse_gallery(o.body))

FetchGalleryResult(o) ==
    IF o.kind = "timeout" THEN Raise("ToolError", "Timeout fetching " \o GALLERY_URL)
    ELSE IF o.kind = "error"
         THEN Raise("ToolError", "Network error fetching gallery: " \o TransportErrorText)
    ELSE IF o.status # 200
         THEN Raise("ToolError",
                    "Failed to fetch gallery (HTTP " \o ToString(o.status) \o ")")
    ELSE IF parse_gallery(o.body) = <<>>
         THEN Raise("ToolError", "No examples found in gallery page")
    ELSE OkExamples(parse_gallery(o.body))

FetchGalleryStart(c) ==
    /\ fn = "fetch_gallery"
    /\ calls[c].pc # "awaiting"
    /\ calls' = [calls EXCEPT ![c] =
          IF /\ Location(_GALLERY_CACHE) \in DOMAIN cache
             /\ now - cache[Location(_GALLERY_CACHE)].mtime < CACHE_TTL_SECONDS
          THEN [pc |-> "done", op |-> "gallery", key |-> <<>>, gets |-> 0,
                result |-> OkExamples(JsonLoads(read_text(_GALLERY_CACHE)))]
          ELSE [pc |-> "awaiting", op |-> "gallery", key |-> <<>>, gets |-> 1,
                result |-> NoResult]]
    /\ UNCHANGED <<cache, now, input, fn, output>>

FetchGalleryFinish(c, o) ==
    /\ calls[c].pc = "awaiting"
    /\ calls[c].op = "gallery"
    /\ LET result == FetchGalleryResult(o)
       IN  /\ calls' = [calls EXCEPT ![c].pc = "done", ![c].result = result]
           /\ cache' = IF Overwrite(_GALLERY_CACHE)
                       THEN CacheAfter(_GALLERY_CACHE, result, JsonDumps(result.examples))
                       ELSE cache
    /\ UNCHANGED <<now, input, fn, output>>

(***************************************************************************)
(* get_example and fetch_notebook                                          *)
(***************************************************************************)
NotebookSources ==
    { [md |-> <<DescriptionCell>>,
       cells |-> << [async |-> FALSE, name |-> "_chart", params |-> <<"d3", "data">>,
                     rest |-> <<"x", "}", "\n">>] >>,
       files |-> <<>>, deps |-> <<"d3", "data">>, modules |-> <<>>, helpers |-> <<>>],
      [md |-> <<DescriptionCell>>,
       cells |-> << [async |-> FALSE, name |-> "_1", params |-> <<"md">>,
                     rest |-> <<"return", "(", "md", ")", "}">>] >>,
       files |-> <<>>, deps |-> <<>>, modules |-> <<>>, helpers |-> <<>>] }

\* A fetcher that takes the text extract_notebook_code gives for a notebook
\* without a chart as a failure.
FetchNotebookResult_SentinelRaises(path, o) ==
    IF o.kind = "timeout"
    THEN Raise("ToolError", "Timeout fetching notebook: " \o Str(path))
    ELSE IF o.kind = "error"
         THEN Raise("ToolError", "Network error fetching notebook: " \o TransportErrorText)
    ELSE IF o.status = 404
         THEN Raise("ToolError", "Notebook not found: " \o Str(path))
    ELSE IF raise_for_status(o.status)
         THEN Raise("HTTPStatusError", ToString(o.status))
    ELSE IF extract_notebook_code(o.body) = NoChartText
         THEN Raise("ToolError", NoChartText)
    ELSE Ok(extract_notebook_code(o.body))

FetchNotebookResult(path, o) ==
    IF o.kind = "timeout"
    THEN Raise("ToolError", "Timeout fetching notebook: " \o Str(path))
    ELSE IF o.kind = "error"
         THEN Raise("ToolError", "Network error fetching notebook: " \o TransportErrorText)
    ELSE IF o.status = 404
         THEN Raise("ToolError", "Notebook not found: " \o Str(path))
    ELSE IF raise_for_status(o.status)
         THEN Raise("HTTPStatusError", ToString(o.status))
    ELSE Ok(extract_notebook_code(o.body))

FetchNotebookStart(c, p) ==
    /\ fn = "fetch_notebook"
    /\ calls[c].pc # "awaiting"
    /\ LET path       == get_example_key(p)
           cache_path == _example_cache_path(path)
       IN  calls' = [calls EXCEPT ![c] =
              IF /\ Location(cache_path) \in DOMAIN cache
                 /\ now - cache[Location(cache_path)].mtime < CACHE_TTL_SECONDS
              THEN [pc |-> "done", op |-> "notebook", key |-> path, gets |-> 0,
                    result |-> Ok(read_text(cache_path))]
              ELSE [pc |-> "awaiting", op |-> "notebook", key |-> path, gets |-> 1,
                    result |-> NoResult]]
    /\ UNCHANGED <<cache, now, input, fn, output>>

FetchNotebookFinish(c, o) ==
    /\ calls[c].pc = "awaiting"
    /\ calls[c].op = "notebook"
    /\ LET cache_path == _example_cache_path(calls[c].key)
           result     == FetchNotebookResult(calls[c].key, o)
       IN  /\ calls' = [calls EXCEPT ![c].pc = "done", ![c].result = result]
           /\ cache' = IF Overwrite(cache_path)
                       THEN CacheAfter(cache_path, result, result.text)
                       ELSE cache
    /\ UNCHANGED <<now, input, fn, output>>

(***************************************************************************)
(* The clock.  It moves by a TTL or by one second less, so that an entry   *)
(* is met one second old, one second short of the TTL, and at the TTL.     *)
(***************************************************************************)
Tick(d) ==
    /\ now + d <= MaxDays * CACHE_TTL_SECONDS
    /\ now' = now + d
    /\ UNCHANGED <<cache, calls, input, fn, output>>

Init ==
    /\ cache = <<>>
    /\ now = 0
    /\ calls = [c \in Callers |-> Idle]
    /\ input = <<>>
    /\ fn \in Fetchers
    /\ output = <<>>

Next ==
    \/ \E c \in Callers, page \in FetchedPages : FetchPageStart(c, page)
    \/ \E c \in Callers, o \in Outcomes(PageHtmls) : FetchPageFinish(c, o)
    \/ \E c \in Callers : FetchGalleryStart(c)
    \/ \E c \in Callers, o \in Outcomes(GalleryPages) : FetchGalleryFinish(c, o)
    \/ \E c \in Callers, p \in ExamplePaths : FetchNotebookStart(c, p)
    \/ \E c \in Callers, o \in Outcomes(NotebookSources) : FetchNotebookFinish(c, o)
    \/ \E d \in {CACHE_TTL_SECONDS - 1, CACHE_TTL_SECONDS} : Tick(d)

Spec == Init /\ [][Next]_vars


(***************************************************************************)
(* How a step of a call shows in the state.                                *)
(***************************************************************************)
\* Caller c starts a request in this step (it returns at once on a hit).
Starts(c) ==
    /\ calls[c].pc # "awaiting"
    /\ calls'[c].pc # "idle"
    /\ \/ calls'[c].pc # calls[c].pc
       \/ calls'[c].op # calls[c].op
       \/ calls'[c].gets # calls[c].gets
       \/ calls'[c].result.kind # calls[c].result.kind
       \/ calls'[c].result.text # calls[c].result.text

\* The GET of caller c is answered in this step and the call ends.
Finishes(c) == calls[c].pc = "awaiting" /\ calls'[c].pc = "done"

\* The cache entry a call is about.
EntryOf(call) ==
    CASE call.op = "page"     -> Location(_cache_path(call.key))
      [] call.op = "gallery"  -> _GALLERY_CACHE
      [] call.op = "notebook" -> Location(_example_cache_path(call.key))

\* C1: for each of the three fetchers, a call that finds its entry present
\* and younger than the TTL returns the cached content and sends no GET; a
\* call that finds it absent or stale sends exactly one GET, and no step
\* that ends the call sends another.
C1_FreshServedStaleFetchedOnce ==
    [][\A c \in Callers :
         /\ Starts(c) =>
              LET loc == EntryOf(calls'[c])
              IN  IF loc \in DOMAIN cache /\ now - cache[loc].mtime < 86400
                  THEN /\ calls'[c].pc = "done"
                       /\ calls'[c].gets = 0
                       /\ calls'[c].result.kind = "ok"
                       /\ IF calls'[c].op = "gallery"
                          THEN JsonDumps(calls'[c].result.examples) = cache[loc].content
                          ELSE calls'[c].result.text = cache[loc].content
                  ELSE /\ calls'[c].pc = "awaiting"
                       /\ calls'[c].gets = 1
         /\ Finishes(c) => calls'[c].gets = 1
         /\ calls'[c].gets <= 1]_vars

\* One caller alone: its first call fetched and wrote the gallery at time 0,
\* and a later call of it, one second short of the TTL at the latest, was
\* served from the file without a GET.
C1_Witness ==
    /\ calls["c2"] = Idle
    /\ calls["c1"].pc = "done"
    /\ calls["c1"].op = "gallery"
    /\ calls["c1"].gets = 0
    /\ calls["c1"].result.kind = "ok"
    /\ JsonDumps(calls["c1"].result.examples) = cache[_GALLERY_CACHE].content
    /\ cache[_GALLERY_CACHE].mtime = 0
    /\ now = 86399

\* C2: a fetch that fails (timeout, transport error, 404, other status, or a
\* gallery page with no examples) leaves every cache entry as it was, content
\* and modification time; and no step that starts a fetch touches the cache,
\* so an entry is replaced only once the new content is there.
C2_FailedFetchKeepsEntry ==
    [][\A c \in Callers :
         /\ (Finishes(c) /\ calls'[c].result.kind = "raise") => cache' = cache
         /\ Starts(c) => cache' = cache]_vars

C2_Witness ==
    /\ calls["c2"] = Idle
    /\ calls["c1"].pc = "done"
    /\ calls["c1"].gets = 1
    /\ calls["c1"].result.kind = "raise"
    /\ EntryOf(calls["c1"]) \in DOMAIN cache
    /\ cache[EntryOf(calls["c1"])].mtime = 0
    /\ now >= 86400

\* The messages the fetchers raise, by the kind of failure they name.
TimeoutMessages ==
    { "Timeout fetching https://d3js.org/a",
      "Timeout fetching https://d3js.org/a/a",
      "Timeout fetching https://observablehq.com/@d3/gallery",
      "Timeout fetching notebook: @a",
      "Timeout fetching notebook: @a/a" }

TransportMessages ==
    { "Network error fetching https://d3js.org/a: connection refused",
      "Network error fetching https://d3js.org/a/a: connection refused",
      "Network error fetching gallery: connection refused",
      "Network error fetching notebook: connection refused" }

NotFoundMessages ==
    { "Page not found: https://d3js.org/a", "Page not found: https://d3js.org/a/a",
      "Notebook not found: @a", "Notebook not found: @a/a" }

GenericMessages ==
    { "Failed to fetch gallery (HTTP 404)", "Failed to fetch gallery (HTTP 500)" }

\* C3: for each of the three fetchers the caller sees four distinct
\* failures, each raised as ToolError: a timeout, another transport error, a
\* 404 as "not found", and any other non-success status as a generic fetch
\* failure; a 404 is never reported as the generic failure.
C3_FourFailuresAsToolError ==
    [][LET Failed(o) == o.kind # "response" \/ o.status # 200
           ReportedAs(o, result) ==
               /\ result.kind = "raise"
               /\ result.type = "ToolError"
               /\ o.kind = "timeout" => result.text \in TimeoutMessages
               /\ o.kind = "error" => result.text \in TransportMessages
               /\ (o.kind = "response" /\ o.status = 404) =>
                     /\ result.text \in NotFoundMessages
                     /\ result.text \notin GenericMessages
               /\ (o.kind = "response" /\ o.status = 500) =>
                     /\ result.text \notin NotFoundMessages
                     /\ result.text \notin TimeoutMessages
                     /\ result.text \notin TransportMessages
       IN  \A c \in Callers :
             /\ \A o \in Outcomes(PageHtmls) :
                  (FetchPageFinish(c, o) /\ Failed(o)) => ReportedAs(o, calls'[c].result)
             /\ \A o \in Outcomes(GalleryPages) :
                  (FetchGalleryFinish(c, o) /\ Failed(o))
                     => ReportedAs(o, calls'[c].result)
             /\ \A o \in Outcomes(NotebookSources) :
                  (FetchNotebookFinish(c, o) /\ Failed(o))
                     => ReportedAs(o, calls'[c].result)]_vars

\* C4: a gallery page received with status 200 that holds no preview object
\* makes fetch_gallery raise, return no list and write nothing; no call ever
\* returns an empty example list and the gallery cache never holds one.
C4_EmptyGalleryIsAFailure ==
    [][/\ \A c \in Callers : \A o \in Outcomes(GalleryPages) :
            (/\ FetchGalleryFinish(c, o)
             /\ o.kind = "response"
             /\ o.status = 200
             /\ \A i \in 1..Len(o.body) : o.body[i].previews = <<>>)
            => /\ calls'[c].result.kind = "raise"
               /\ calls'[c].result.type = "ToolError"
               /\ cache' = cache
       /\ \A c \in Callers :
            (calls'[c].op = "gallery" /\ calls'[c].result.kind = "ok")
               => calls'[c].result.examples # <<>>
       /\ _GALLERY_CACHE \in DOMAIN cache' => cache'[_GALLERY_CACHE].content # "[]"]_vars

C4_Witness ==
    /\ calls["c1"].pc = "done"
    /\ calls["c1"].op = "gallery"
    /\ calls["c1"].result.text = "No examples found in gallery page"
    /\ calls["c2"] = Idle
    /\ _GALLERY_CACHE \in DOMAIN cache
    /\ now - cache[_GALLERY_CACHE].mtime = 86400

\* C9: all three fetchers decide freshness alike: a call is served from the
\* cache iff its entry's file exists and now minus its modification time is
\* strictly below 86400 seconds; a missing file, and an entry exactly 86400
\* seconds old, are fetched again.
C9_FreshIffYoungerThanTTL ==
    [][\A c \in Callers :
         Starts(c) =>
            LET loc == EntryOf(calls'[c])
            IN  /\ calls'[c].pc = "done" <=>
                     (loc \in DOMAIN cache /\ now - cache[loc].mtime < 86400)
                /\ loc \notin DOMAIN cache => calls'[c].pc = "awaiting"
                /\ (loc \in DOMAIN cache /\ now - cache[loc].mtime = 86400)
                      => calls'[c].pc = "awaiting"]_vars

C9_Witness ==
    /\ calls["c2"] = Idle
    /\ calls["c1"].pc = "awaiting"
    /\ calls["c1"].op = "notebook"
    /\ EntryOf(calls["c1"]) \in DOMAIN cache
    /\ cache[EntryOf(calls["c1"])].mtime = 0
    /\ now = 86400

\* C10: concurrent misses for one key are not de-duplicated: a call that
\* misses sends its own GET even while another call is awaiting the same
\* key, every call that succeeds writes what it produced even when the other
\* has just written, and so the entry holds the last finished write.
C10_LastWriteWins ==
    [][\A c \in Callers :
         /\ \A d \in Callers \ {c} :
               (/\ Starts(c)
                /\ calls[d].pc = "awaiting"
                /\ EntryOf(calls[d]) = EntryOf(calls'[c])
                /\ ~(/\ EntryOf(calls[d]) \in DOMAIN cache
                     /\ now - cache[EntryOf(calls[d])].mtime < 86400))
               => /\ calls'[c].pc = "awaiting"
                  /\ calls'[c].gets = 1
                  /\ calls'[d] = calls[d]
         /\ (Finishes(c) /\ calls'[c].result.kind = "ok") =>
               LET loc == EntryOf(calls'[c])
               IN  /\ loc \in DOMAIN cache'
                   /\ cache'[loc].mtime = now
                   /\ cache'[loc].content =
                         IF calls'[c].op = "gallery"
                         THEN JsonDumps(calls'[c].result.examples)
                         ELSE calls'[c].result.text]_vars

C10_Witness ==
    /\ now = 0
    /\ calls["c1"].pc = "done" /\ calls["c2"].pc = "done"
    /\ calls["c1"].op = "notebook" /\ calls["c2"].op = "notebook"
    /\ calls["c1"].key = calls["c2"].key
    /\ calls["c1"].gets = 1 /\ calls["c2"].gets = 1
    /\ calls["c1"].result.kind = "ok" /\ calls["c2"].result.kind = "ok"
    /\ calls["c1"].result.text # calls["c2"].result.text
    /\ cache[EntryOf(calls["c2"])].content = calls["c2"].result.text

\* C29: fetch_notebook handles the text for a notebook without a chart as
\* it handles any document.  A GET answered 200 with a source that has no
\* _chart cell ends the call with that text as its result, not an exception,
\* and leaves the text in the entry with the current time; a request that
\* finds the text in an entry younger than the TTL returns it and sends no
\* GET; and the text leaves an entry only when a successful fetch of that
\* entry writes over it.
C29_SentinelIsCachedAndServed ==
    [][/\ \A c \in Callers :
            /\ \A o \in Outcomes(NotebookSources) :
                 (/\ FetchNotebookFinish(c, o)
                  /\ o.kind = "response"
                  /\ o.status = 200
                  /\ \A k \in 1..Len(o.body.cells) : o.body.cells[k].name # "_chart")
                 => /\ calls'[c].result = Ok("No chart code found in this notebook.")
                    /\ EntryOf(calls[c]) \in DOMAIN cache'
                    /\ cache'[EntryOf(calls[c])] =
                          [content |-> "No chart code found in this notebook.",
                           mtime |-> now]
            /\ (/\ fn = "fetch_notebook"
                /\ Starts(c)
                /\ EntryOf(calls'[c]) \in DOMAIN cache
                /\ cache[EntryOf(calls'[c])].content =
                      "No chart code found in this notebook."
                /\ now - cache[EntryOf(calls'[c])].mtime < 86400)
               => /\ calls'[c].pc = "done"
                  /\ calls'[c].gets = 0
                  /\ calls'[c].result = Ok("No chart code found in this notebook.")
                  /\ cache' = cache
       /\ fn = "fetch_notebook" =>
            \A loc \in DOMAIN cache :
               (/\ cache[loc].content = "No chart code found in this notebook."
                /\ (loc \notin DOMAIN cache' \/ cache'[loc] # cache[loc]))
               => \E c \in Callers :
                     /\ Finishes(c)
                     /\ calls'[c].result.kind = "ok"
                     /\ EntryOf(calls'[c]) = loc]_vars

\* The first caller fetched a notebook without a chart at time 0; one second
\* short of the TTL the second caller asked for the same key and was given
\* the text from the file.
C29_Witness ==
    /\ fn = "fetch_notebook"
    /\ now = 86399
    /\ calls["c1"].pc = "done" /\ calls["c2"].pc = "done"
    /\ calls["c1"].key = calls["c2"].key
    /\ calls["c1"].gets = 1 /\ calls["c2"].gets = 0
    /\ calls["c1"].result = Ok("No chart code found in this notebook.")
    /\ calls["c2"].result = Ok("No chart code found in this notebook.")
    /\ cache[EntryOf(calls["c1"])] =
          [content |-> "No chart code found in this notebook.", mtime |-> 0]

(***************************************************************************)
(* Two server processes on one cache directory.  Each client starts its    *)
(* own server, and all of them keep their files under CACHE_DIR.           *)
(* Path.write_text opens the file for writing, which truncates it and sets *)
(* its modification time, and then writes the text and closes; between the *)
(* two the other process runs.  A caller is a process here.                *)
(***************************************************************************)
InitProcesses ==
    /\ cache = <<>>
    /\ now = 0
    /\ calls = [c \in Callers |-> Idle]
    /\ input = <<>>
    /\ fn = "fetch_page"
    /\ output = <<>>

\* fetch_page from the GET's outcome up to the open() inside write_text.
FetchPageOpen(c, o) ==
    /\ calls[c].pc = "awaiting"
    /\ calls[c].op = "page"
    /\ LET path   == _cache_path(calls[c].key)
           result == FetchPageResult(calls[c].key, o)
       IN  IF result.kind = "ok"
           THEN /\ calls' = [calls EXCEPT ![c].pc = "writing", ![c].result = result]
                /\ cache' = write_text(path, "")
           ELSE /\ calls' = [calls EXCEPT ![c].pc = "done", ![c].result = result]
                /\ cache' = cache
    /\ UNCHANGED <<now, input, fn, output>>

\* The write() and close() inside write_text, and the return.
FetchPageWrite(c) ==
    /\ calls[c].pc = "writing"
    /\ cache' = write_text(_cache_path(calls[c].key), calls[c].result.text)
    /\ calls' = [calls EXCEPT ![c].pc = "done"]
    /\ UNCHANGED <<now, input, fn, output>>

NextProcesses ==
    \/ \E c \in Callers, page \in FetchedPages : FetchPageStart(c, page)
    \/ \E c \in Callers, o \in Outcomes(PageHtmls) : FetchPageOpen(c, o)
    \/ \E c \in Callers : FetchPageWrite(c)
    \/ \E d \in {CACHE_TTL_SECONDS - 1, CACHE_TTL_SECONDS} : Tick(d)

SpecProcesses == InitProcesses /\ [][NextProcesses]_vars

\* What a completed write of a page can have stored.
CompletePages == { _html_to_markdown(h) : h \in PageHtmls }

\* C11: a call that finds its entry fresh returns the complete content of
\* some completed write, never empty or partial content, even while another
\* call is overwriting the entry.
C11_FreshReadIsComplete ==
    \A c \in Callers :
        (/\ calls[c].pc = "done"
         /\ calls[c].op = "page"
         /\ calls[c].gets = 0
         /\ calls[c].result.kind = "ok")
            => calls[c].result.text \in CompletePages

(***************************************************************************)
(* The brace scanner on its own: _extract_function_body is applied to the  *)
(* text that follows an opening brace.  The text is built from the pieces  *)
(* the scanner tells apart.                                                *)
(***************************************************************************)
ScanTokens ==
    { <<"{">>, <<"}">>, <<"\"">>, <<"\\", "\"">>, <<"/", "/">>, <<"/", "*">>,
      <<"*", "/">>, <<"\n">> }

RECURSIVE BodiesOfLen(_)
BodiesOfLen(n) ==
    IF n = 0 THEN { <<>> }
    ELSE { t \o b : t \in ScanTokens, b \in BodiesOfLen(n - 1) }

Bodies == UNION { BodiesOfLen(n) : n \in 0..MaxScanTokens }

InitScanner ==
    /\ cache = <<>>
    /\ now = 0
    /\ calls = <<>>
    /\ input \in Bodies
    /\ fn = "none"
    /\ output = <<>>

ApplyExtractFunctionBody ==
    /\ fn = "none"
    /\ fn' = "_extract_function_body"
    /\ output' = _extract_function_body(input)
    /\ UNCHANGED <<cache, now, calls, input>>

NextScanner == ApplyExtractFunctionBody

SpecScanner == InitScanner /\ [][NextScanner]_vars

\* C12: braces inside a quoted literal (a backslash escaping the character
\* after it) and inside a line or block comment never change the depth; the
\* body returned ends at the first closing brace outside such regions that
\* brings the depth back to zero, and leaves that brace out.  Closing is the
\* position of that brace as a reader of the text finds it, region by
\* region (0 if there is none).
C12_BodyEndsAtMatchingBrace ==
    LET RECURSIVE Closing(_, _, _, _)
        Closing(src, i, region, depth) ==
            IF i > Len(src) THEN 0
            ELSE LET ch   == src[i]
                     next == IF i < Len(src) THEN src[i + 1] ELSE ""
                 IN  CASE region = "code" ->
                            IF ch = "{" THEN Closing(src, i + 1, "code", depth + 1)
                            ELSE IF ch = "}"
                                 THEN IF depth = 1 THEN i
                                      ELSE Closing(src, i + 1, "code", depth - 1)
                            ELSE IF ch \in {"\"", "'", "^"}
                                 THEN Closing(src, i + 1, ch, depth)
                            ELSE IF ch = "/" /\ next = "/"
                                 THEN Closing(src, i + 2, "line", depth)
                            ELSE IF ch = "/" /\ next = "*"
                                 THEN Closing(src, i + 2, "block", depth)
                            ELSE Closing(src, i + 1, "code", depth)
                       [] region = "line" ->
                            Closing(src, i + 1, IF ch = "\n" THEN "code" ELSE "line", depth)
                       [] region = "block" ->
                            IF ch = "*" /\ next = "/"
                            THEN Closing(src, i + 2, "code", depth)
                            ELSE Closing(src, i + 1, "block", depth)
                       [] OTHER ->
                            IF ch = "\\" THEN Closing(src, i + 2, region, depth)
                            ELSE IF ch = region THEN Closing(src, i + 1, "code", depth)
                            ELSE Closing(src, i + 1, region, depth)
    IN  fn = "_extract_function_body" =>
            LET n == Closing(input, 1, "code", 1)
            IN  n > 0 => output = strip(SubSeq(input, 1, n - 1))

\* A literal that holds a "}", then the brace that ends the body.
C12_Witness ==
    /\ fn = "_extract_function_body"
    /\ input = <<"\"", "}", "\"", "}">>
    /\ output = <<"\"", "}", "\"">>

(***************************************************************************)
(* search.py and examples.py: query terms and scoring.  Queries and the    *)
(* text fields of records are sequences of characters.                     *)
(***************************************************************************)
Lowercase == {"a", "b", "d"}      \* the [a-z] met here

Uppercase == {"A", "B"}      \* the [A-Z] met here

\* str.split(): the runs of non-whitespace characters, in order.
RECURSIVE SplitRuns(_, _)
SplitRuns(s, cur) ==
    IF s = <<>> THEN IF cur = <<>> THEN <<>> ELSE <<cur>>
    ELSE IF Head(s) \in Whitespace
         THEN (IF cur = <<>> THEN <<>> ELSE <<cur>>) \o SplitRuns(Tail(s), <<>>)
         ELSE SplitRuns(Tail(s), Append(cur, Head(s)))

split(s) == SplitRuns(s, <<>>)

\* The longest prefix of s made of characters of cs.
RECURSIVE Run(_, _)
Run(s, cs) ==
    IF s # <<>> /\ Head(s) \in cs THEN <<Head(s)>> \o Run(Tail(s), cs) ELSE <<>>

\* _CAMEL_RE.findall(token) for _CAMEL_RE = [a-z]+|[A-Z][a-z]*
RECURSIVE _CAMEL_RE_findall(_)
_CAMEL_RE_findall(token) ==
    IF token = <<>> THEN <<>>
    ELSE IF Head(token) \in Lowercase
         THEN LET m == Run(token, Lowercase)
              IN  <<m>> \o _CAMEL_RE_findall(SubSeq(token, Len(m) + 1, Len(token)))
    ELSE IF Head(token) \in Uppercase
         THEN LET m == <<Head(token)>> \o Run(Tail(token), Lowercase)
              IN  <<m>> \o _CAMEL_RE_findall(SubSeq(token, Len(m) + 1, Len(token)))
    ELSE _CAMEL_RE_findall(Tail(token))

RECURSIVE TermsOfTokens(_)
TermsOfTokens(tokens) ==
    IF tokens = <<>> THEN <<>>
    ELSE LET token == Head(tokens)
             found == _CAMEL_RE_findall(token)
             parts == [i \in 1..Len(found) |-> lower(found[i])]
         IN  (IF Len(parts) > 1 THEN Append(parts, lower(token)) ELSE <<lower(token)>>)
             \o TermsOfTokens(Tail(tokens))

_split_terms(query) == TermsOfTokens(split(query))

\* Python's "t in s" for two strings.
IsSubstring(t, s) ==
    \E i \in 0..(Len(s) - Len(t)) : SubSeq(s, i + 1, i + Len(t)) = t

\* Python's "x in xs" for a list.
InList(x, xs) == \E i \in 1..Len(xs) : xs[i] = x

removeprefix(s, prefix) ==
    IF startswith(s, prefix) THEN SubSeq(s, Len(prefix) + 1, Len(s)) ELSE s

\* list.sort(key=score, reverse=True) keeps the order of equal scores; the
\* variant below puts a pair in front of the pairs of equal score.
Insert_BeforeTies(sorted, pair) ==
    LET k == Cardinality({ i \in 1..Len(sorted) : sorted[i].score > pair.score })
    IN  SubSeq(sorted, 1, k) \o <<pair>> \o SubSeq(sorted, k + 1, Len(sorted))

Insert(sorted, pair) ==
    LET k == Cardinality({ i \in 1..Len(sorted) : sorted[i].score >= pair.score })
    IN  SubSeq(sorted, 1, k) \o <<pair>> \o SubSeq(sorted, k + 1, Len(sorted))

RECURSIVE SortByScore(_)
SortByScore(pairs) ==
    IF pairs = <<>> THEN <<>>
    ELSE Insert(SortByScore(SubSeq(pairs, 1, Len(pairs) - 1)), pairs[Len(pairs)])

\* The pairs of positive score, in the order of the records.
RECURSIVE Positive(_, _)
Positive(records, scores) ==
    IF records = <<>> THEN <<>>
    ELSE (IF Head(scores) > 0
          THEN <<[record |-> Head(records), score |-> Head(scores)]>>
          ELSE <<>>)
         \o Positive(Tail(records), Tail(scores))

\* score_modules: the score one module gets.  All four tests are applied to
\* every term; the variant stops at the first test that succeeds.
RECURSIVE ModuleScore_FirstOnly(_, _)
ModuleScore_FirstOnly(terms, module) ==
    IF terms = <<>> THEN 0
    ELSE LET term == Head(terms)
             name_lower == lower(module.name)
             short_name == removeprefix(name_lower, <<"d", "3", "-">>)
             desc_words == split(lower(module.description))
             tags_lower == [i \in 1..Len(module.tags) |-> lower(module.tags[i])]
         IN  (IF term \in {name_lower, short_name} THEN 10
              ELSE IF InList(term, tags_lower) THEN 3
              ELSE IF InList(term, desc_words) THEN 2
              ELSE IF \E i \in 1..Len(tags_lower) : IsSubstring(term, tags_lower[i])
                   THEN 1 ELSE 0)
             + ModuleScore_FirstOnly(Tail(terms), module)

RECURSIVE ModuleScore(_, _)
ModuleScore(terms, module) ==
    IF terms = <<>> THEN 0
    ELSE LET term == Head(terms)
             name_lower == lower(module.name)
             short_name == removeprefix(name_lower, <<"d", "3", "-">>)
             desc_words == split(lower(module.description))
             tags_lower == [i \in 1..Len(module.tags) |-> lower(module.tags[i])]
         IN  (IF term \in {name_lower, short_name} THEN 10 ELSE 0)
             + (IF InList(term, tags_lower) THEN 3 ELSE 0)
             + (IF InList(term, desc_words) THEN 2 ELSE 0)
             + (IF \E i \in 1..Len(tags_lower) : IsSubstring(term, tags_lower[i])
                THEN 1 ELSE 0)
             + ModuleScore(Tail(terms), module)

score_modules(query, modules) ==
    LET terms == _split_terms(query)
        scores == [i \in 1..Len(modules) |-> ModuleScore(terms, modules[i])]
    IN  SortByScore(Positive(modules, scores))

\* score_examples: the score one example gets.  A term that is a word of the
\* title is not also counted as a part of the title; the variant counts both.
RECURSIVE ExampleScore_Both(_, _)
ExampleScore_Both(terms, example) ==
    IF terms = <<>> THEN 0
    ELSE LET term == Head(terms)
             title_lower == lower(example.title)
             title_words == split(title_lower)
             category_lower == lower(example.category)
             path_lower == lower(example.path)
         IN  (IF InList(term, title_words) THEN 10 ELSE 0)
             + (IF IsSubstring(term, title_lower) THEN 5 ELSE 0)
             + (IF term = category_lower THEN 3 ELSE 0)
             + (IF IsSubstring(term, path_lower) THEN 1 ELSE 0)
             + ExampleScore_Both(Tail(terms), example)

RECURSIVE ExampleScore(_, _)
ExampleScore(terms, example) ==
    IF terms = <<>> THEN 0
    ELSE LET term == Head(terms)
             title_lower == lower(example.title)
             title_words == split(title_lower)
             category_lower == lower(example.category)
             path_lower == lower(example.path)
         IN  (IF InList(term, title_words) THEN 10
              ELSE IF IsSubstring(term, title_lower) THEN 5 ELSE 0)
             + (IF term = category_lower THEN 3 ELSE 0)
             + (IF IsSubstring(term, path_lower) THEN 1 ELSE 0)
             + ExampleScore(Tail(terms), example)

score_examples(query, examples) ==
    LET terms == _split_terms(query)
        scores == [i \in 1..Len(examples) |-> ExampleScore(terms, examples[i])]
    IN  SortByScore(Positive(examples, scores))

\* search_sections: the score one section gets.  A heading counts twice as
\* much as the content; in the variant they count the same.
RECURSIVE SectionScore_EqualWeights(_, _)
SectionScore_EqualWeights(terms, section) ==
    IF terms = <<>> THEN 0
    ELSE (IF IsSubstring(Head(terms), lower(section.heading)) THEN 1 ELSE 0)
         + (IF IsSubstring(Head(terms), lower(section.content)) THEN 1 ELSE 0)
         + SectionScore_EqualWeights(Tail(terms), section)

RECURSIVE SectionScore(_, _)
SectionScore(terms, section) ==
    IF terms = <<>> THEN 0
    ELSE LET term == Head(terms)
             heading_lower == lower(section.heading)
             content_lower == lower(section.content)
         IN  (IF IsSubstring(term, heading_lower) THEN 2 ELSE 0)
             + (IF IsSubstring(term, content_lower) THEN 1 ELSE 0)
             + SectionScore(Tail(terms), section)

\* xs[:n]; the variant returns the whole list.
Slice_NoCap(xs, n) == xs

Slice(xs, n) ==
    IF n >= 0
    THEN SubSeq(xs, 1, IF n < Len(xs) THEN n ELSE Len(xs))
    ELSE SubSeq(xs, 1, IF Len(xs) + n > 0 THEN Len(xs) + n ELSE 0)

DefaultMaxResults == 10

search_sections(query, sections, max_results) ==
    LET terms == split(lower(query))
        scores == [i \in 1..Len(sections) |-> SectionScore(terms, sections[i])]
        scored == SortByScore(Positive(sections, scores))
        cut == Slice(scored, max_results)
    IN  [i \in 1..Len(cut) |-> cut[i].record]

\* A registry of three modules and a gallery of three examples.
D3_MODULES ==
    << [name |-> <<"d", "3", "-", "a">>, description |-> <<"A", " ", "b">>,
        tags |-> << <<"a">>, <<"a", "b">> >>],
       [name |-> <<"d", "3", "-", "b">>, description |-> <<"B", "-", "a">>,
        tags |-> << <<"b">> >>],
       [name |-> <<"d", "3", "-", "a", "b">>, description |-> <<"A", " ", "b">>,
        tags |-> << <<"a">>, <<"a", "b">> >>] >>

GalleryExamples ==
    << [path |-> <<"@", "d", "3", "/", "a", "-", "b">>, title |-> <<"A", " ", "b">>,
        category |-> <<"A">>, author |-> "D3"],
       [path |-> <<"@", "d", "3", "/", "a", "b">>, title |-> <<"A", "b">>,
        category |-> <<"B">>, author |-> "D3"],
       [path |-> <<"@", "d", "3", "/", "b", "-", "a">>, title |-> <<"B", " ", "a">>,
        category |-> <<"A">>, author |-> "D3"] >>

\* The sections of a page, and a page of more sections than the default
\* cap.
PageSections ==
    << [heading |-> <<"a">>, content |-> <<"b">>],
       [heading |-> <<"A", "-", "b">>, content |-> <<"a", " ", "b">>],
       [heading |-> <<"b">>, content |-> <<"A">>] >>

LongPage ==
    [i \in 1..(DefaultMaxResults + 1) |-> PageSections[(i % Len(PageSections)) + 1]]

\* The lists of up to MaxRecords different records of a pool, in any order.
RecordLists(pool) ==
    { l \in SeqsUpTo(1..Len(pool), MaxRecords) :
        \A i, j \in 1..Len(l) : i # j => l[i] # l[j] }

Records(pool, l) == [i \in 1..Len(l) |-> pool[l[i]]]

\* The queries: every text of up to MaxQueryChars characters, and the names
\* of the modules.
QueryChars == {"a", "b", "B", "-", " "}

Queries ==
    SeqsUpTo(QueryChars, MaxQueryChars)
        \cup { D3_MODULES[i].name : i \in 1..Len(D3_MODULES) }

NoArguments == [records |-> <<>>, max_results |-> 0, given |-> FALSE]

InitSearch ==
    /\ cache = <<>>
    /\ now = 0
    /\ calls = NoArguments
    /\ input \in Queries
    /\ fn = "none"
    /\ output = <<>>

\* input is the query; calls holds the other arguments of the function.
ApplySplitTerms ==
    /\ fn = "none"
    /\ fn' = "_split_terms"
    /\ output' = _split_terms(input)
    /\ UNCHANGED <<cache, now, calls, input>>

\* C13: a whitespace-separated token of the query is cut only where a
\* lowercase letter is followed by an uppercase one; a token with such a
\* transition gives its lowercased sub-words and then the whole token
\* lowercased, and a token with none gives exactly one term.
C13_SplitOnlyAtCaseTransition ==
    LET RECURSIVE CamelCut(_, _)
        CamelCut(token, cur) ==
            IF token = <<>> THEN IF cur = <<>> THEN <<>> ELSE <<cur>>
            ELSE IF /\ cur # <<>>
                    /\ cur[Len(cur)] \in Lowercase
                    /\ Head(token) \in Uppercase
                 THEN <<cur>> \o CamelCut(Tail(token), <<Head(token)>>)
                 ELSE CamelCut(Tail(token), Append(cur, Head(token)))
        RECURSIVE Claimed(_)
        Claimed(tokens) ==
            IF tokens = <<>> THEN <<>>
            ELSE LET cut == CamelCut(Head(tokens), <<>>)
                     subwords == [i \in 1..Len(cut) |-> lower(cut[i])]
                 IN  (IF Len(cut) > 1
                      THEN Append(subwords, lower(Head(tokens)))
                      ELSE <<lower(Head(tokens))>>)
                     \o Claimed(Tail(tokens))
    IN  fn = "_split_terms" => output = Claimed(split(input))

\* C15 and C16 are about the two scoring functions below, C14 about what
\* both return.
ApplyScoreModules ==
    /\ fn = "none"
    /\ \E l \in RecordLists(D3_MODULES) :
           /\ calls' = [records |-> Records(D3_MODULES, l), max_results |-> 0, given |-> FALSE]
           /\ output' = score_modules(input, Records(D3_MODULES, l))
    /\ fn' = "score_modules"
    /\ UNCHANGED <<cache, now, input>>

ApplyScoreExamples ==
    /\ fn = "none"
    /\ \E l \in RecordLists(GalleryExamples) :
           /\ calls' = [records |-> Records(GalleryExamples, l), max_results |-> 0, given |-> FALSE]
           /\ output' = score_examples(input, Records(GalleryExamples, l))
    /\ fn' = "score_examples"
    /\ UNCHANGED <<cache, now, input>>

\* The same query scored against the same records once more.
ScoreAgain ==
    /\ fn \in {"score_modules", "score_examples"}
    /\ output' = IF fn = "score_modules"
                 THEN score_modules(input, calls.records)
                 ELSE score_examples(input, calls.records)
    /\ UNCHANGED <<cache, now, calls, input, fn>>

C15_ModuleScoreIsSumOfFourWeights ==
    fn = "score_modules" =>
        \A j \in 1..Len(output) :
            LET terms == _split_terms(input)
                m == output[j].record
                name == lower(m.name)
                tags == { lower(m.tags[i]) : i \in 1..Len(m.tags) }
                desc == split(lower(m.description))
                words == { desc[i] : i \in 1..Len(desc) }
                Count(P(_)) == Cardinality({ i \in 1..Len(terms) : P(terms[i]) })
                IsName(t) == t = name \/ <<"d", "3", "-">> \o t = name
                IsTag(t) == t \in tags
                IsWord(t) == t \in words
                InTag(t) == \E g \in tags : IsSubstring(t, g)
            IN  output[j].score = 10 * Count(IsName) + 3 * Count(IsTag)
                                    + 2 * Count(IsWord) + Count(InTag)

C15_Witness ==
    /\ fn = "score_modules"
    /\ input = <<"a">>
    /\ output = << [record |-> D3_MODULES[1], score |-> 16] >>

\* C16: the score of an example is, summed over the terms of the query, 10
\* for a term equal to a word of the title and otherwise 5 for a term
\* contained in the title, plus 3 for a term equal to the category, plus 1
\* for a term contained in the path.  Titles, categories and paths are
\* compared in lowercase.
C16_ExampleScoreIsSumOfWeights ==
    fn = "score_examples" =>
        \A j \in 1..Len(output) :
            LET terms == _split_terms(input)
                e == output[j].record
                title == lower(e.title)
                words == { split(title)[i] : i \in 1..Len(split(title)) }
                Count(P(_)) == Cardinality({ i \in 1..Len(terms) : P(terms[i]) })
                IsWord(t) == t \in words
                InTitleOnly(t) == t \notin words /\ IsSubstring(t, title)
                IsCategory(t) == t = lower(e.category)
                InPath(t) == IsSubstring(t, lower(e.path))
            IN  output[j].score = 10 * Count(IsWord) + 5 * Count(InTitleOnly)
                                    + 3 * Count(IsCategory) + Count(InPath)

C16_Witness ==
    /\ fn = "score_examples"
    /\ input = <<"a">>
    /\ output = << [record |-> GalleryExamples[1], score |-> 14],
                   [record |-> GalleryExamples[2], score |-> 6] >>

SectionLists ==
    { Records(PageSections, l) : l \in RecordLists(PageSections) } \cup { LongPage }

\* max_results is either given, as a number up to one more than MaxRecords,
\* or left to its default.
ApplySearchSections ==
    /\ fn = "none"
    /\ \E sections \in SectionLists, given \in BOOLEAN, n \in 0..(MaxRecords + 1) :
           /\ ~given => n = 0
           /\ LET max_results == IF given THEN n ELSE DefaultMaxResults
              IN  /\ calls' = [records |-> sections, max_results |-> max_results,
                               given |-> given]
                  /\ output' = search_sections(input, sections, max_results)
    /\ fn' = "search_sections"
    /\ UNCHANGED <<cache, now, input>>

\* C17: the score of a section is, summed over the lowercased words of the
\* query, 2 for a term contained in the lowercased heading plus 1 for a term
\* contained in the lowercased content; search_sections returns sections of
\* positive score only, in order of non-increasing score, and all of them
\* when they are no more than the cap.
C17_SectionScoreAndPositiveReturned ==
    fn = "search_sections" =>
        LET terms == split(lower(input))
            sections == calls.records
            Count(P(_)) == Cardinality({ i \in 1..Len(terms) : P(terms[i]) })
            Score(sec) ==
                LET InHeading(t) == IsSubstring(t, lower(sec.heading))
                    InContent(t) == IsSubstring(t, lower(sec.content))
                IN  2 * Count(InHeading) + Count(InContent)
            matching == { i \in 1..Len(sections) : Score(sections[i]) > 0 }
            Times(sec, xs) == Cardinality({ i \in 1..Len(xs) : xs[i] = sec })
        IN  /\ \A j \in 1..Len(output) :
                   /\ Score(output[j]) > 0
                   /\ Times(output[j], output) <= Times(output[j], sections)
            /\ \A j, k \in 1..Len(output) :
                   j < k => Score(output[j]) >= Score(output[k])
            /\ Cardinality(matching) <= calls.max_results =>
                   \A i \in matching :
                       Times(sections[i], output) = Times(sections[i], sections)

C17_Witness ==
    /\ fn = "search_sections"
    /\ input = <<"a">>
    /\ calls.given
    /\ calls.max_results = 3
    /\ calls.records = <<PageSections[3], PageSections[1]>>
    /\ output = <<PageSections[1], PageSections[3]>>

\* C18: search_sections scores a section on the terms that module and
\* example scoring derive from the query, so a section that holds a
\* sub-word of a camel-cased token is among the matching sections.
C18_SectionTermsAreSplitTerms ==
    fn = "search_sections" =>
        LET terms == _split_terms(input)
            sections == calls.records
            Holds(sec, t) == \/ IsSubstring(t, lower(sec.heading))
                             \/ IsSubstring(t, lower(sec.content))
            matching == { i \in 1..Len(sections) :
                            \E k \in 1..Len(terms) : Holds(sections[i], terms[k]) }
        IN  Cardinality(matching) <= calls.max_results =>
                \A i \in matching : InList(sections[i], output)

\* C19: search_sections returns at most max_results sections, 10 when
\* max_results is not given: the first max_results of the matching sections
\* ordered by non-increasing score, equal scores in document order.
C19_FirstMaxResultsByScore ==
    fn = "search_sections" =>
        LET terms == split(lower(input))
            sections == calls.records
            cap == IF calls.given THEN calls.max_results ELSE 10
            Score(i) == SectionScore(terms, sections[i])
            matching == { i \in 1..Len(sections) : Score(i) > 0 }
            Before(k, i) == \/ Score(k) > Score(i)
                            \/ Score(k) = Score(i) /\ k < i
            Rank(i) == Cardinality({ k \in matching : Before(k, i) }) + 1
            kept == { i \in matching : Rank(i) <= cap }
        IN  /\ Len(output) <= cap
            /\ Len(output) = Cardinality(kept)
            /\ \A i \in kept : output[Rank(i)] = sections[i]

C19_Witness ==
    /\ fn = "search_sections"
    /\ input = <<"a", " ", "b">>
    /\ ~calls.given
    /\ calls.records = LongPage
    /\ Len(output) = 10
    /\ output[1] = PageSections[2]
    /\ output[5] = PageSections[3]
    /\ output[6] = PageSections[1]

NextSearch ==
    \/ ApplySplitTerms
    \/ ApplyScoreModules
    \/ ApplyScoreExamples
    \/ ScoreAgain
    \/ ApplySearchSections

SpecSearch == InitSearch /\ [][NextSearch]_vars

(***************************************************************************)
(* server.py: search_docs.  The tool selects a list of pages and then      *)
(* goes through it, one fetch_page per page; other calls can run while a   *)
(* fetch is awaited, so every page is a step of its own.  A page is given  *)
(* by the sections parse_sections finds in its content.                    *)
(***************************************************************************)
EmptyPage == << [heading |-> <<"-">>, content |-> <<"-">>] >>

ShortPage == << PageSections[1] >>

\* The selected pages: up to MaxPages of them, long and short pages in
\* turn, with up to two pages in between that hold nothing of the letters.
PageLists ==
    { [i \in 1..n |-> IF i \in S THEN EmptyPage
                      ELSE IF i % 2 = 1 THEN LongPage ELSE ShortPage] :
        n \in 0..MaxPages,
        S \in { T \in SUBSET (1..MaxPages) : Cardinality(T) <= 2 } }

DocsQueries == { <<"a">>, <<"a", " ", "b">>, <<"-">> }

NoSearch == [pc |-> "idle", pages |-> <<>>, fetched |-> <<>>, all_results |-> <<>>]

NoOutput == [kind |-> "none", entries |-> <<>>]

\* What search_docs returns once the loop is over.
SearchDocsResult(all_results) ==
    IF all_results = <<>>
    THEN [kind |-> "no results", entries |-> <<>>]
    ELSE [kind |-> "results", entries |-> all_results]

\* The loop stops when this many pages have given an entry; the variant
\* stops one entry later.
ShouldBreak_OneLate(all_results) == Len(all_results) > 10

ShouldBreak(all_results) == Len(all_results) >= 10

InitSearchDocs ==
    /\ cache = <<>>
    /\ now = 0
    /\ calls = NoSearch
    /\ input \in DocsQueries
    /\ fn = "search_docs"
    /\ output = NoOutput

\* Lines 104-118: the pages are selected; with none the tool returns.
SearchDocsStart ==
    /\ calls.pc = "idle"
    /\ \E pages \in PageLists :
           IF pages = <<>>
           THEN /\ calls' = [calls EXCEPT !.pc = "done"]
                /\ output' = [kind |-> "no modules", entries |-> <<>>]
           ELSE /\ calls' = [calls EXCEPT !.pc = "loop", !.pages = pages]
                /\ output' = output
    /\ UNCHANGED <<cache, now, input, fn>>

\* Lines 120-136: one turn of the loop, for the page after those fetched,
\* and the return when the turn was the last.
SearchDocsPage ==
    /\ calls.pc = "loop"
    /\ LET i == Len(calls.fetched) + 1
           sections == calls.pages[i]
           matches == search_sections(input, sections, 3)
           all_results == IF matches # <<>>
                          THEN Append(calls.all_results,
                                      [page |-> i, sections |-> matches])
                          ELSE calls.all_results
           over == ShouldBreak(all_results) \/ i = Len(calls.pages)
       IN  /\ calls' = [calls EXCEPT !.fetched = Append(@, i),
                                     !.all_results = all_results,
                                     !.pc = IF over THEN "done" ELSE "loop"]
           /\ output' = IF over THEN SearchDocsResult(all_results) ELSE output
    /\ UNCHANGED <<cache, now, input, fn>>

\* Line 121: fetch_page raises ToolError and the tool ends with it.
SearchDocsFetchFails ==
    /\ calls.pc = "loop"
    /\ calls' = [calls EXCEPT !.fetched = Append(@, Len(@) + 1), !.pc = "done"]
    /\ output' = [kind |-> "raised", entries |-> <<>>]
    /\ UNCHANGED <<cache, now, input, fn>>

NextSearchDocs ==
    \/ SearchDocsStart
    \/ SearchDocsPage
    \/ SearchDocsFetchFails

SpecSearchDocs == InitSearchDocs /\ [][NextSearchDocs]_vars

\* C20: search_docs fetches the selected pages in their order, enters at
\* most 3 matching sections for a page and one entry for every fetched page
\* that has a matching section, and fetches no page once 10 pages have
\* given an entry; what it returns has at most 10 entries.
C20_TenPagesThreeSectionsEach ==
    LET terms == split(lower(input))
        Matches(sec) ==
            \E k \in 1..Len(terms) : \/ IsSubstring(terms[k], lower(sec.heading))
                                     \/ IsSubstring(terms[k], lower(sec.content))
        Matching(i) == \E j \in 1..Len(calls.pages[i]) : Matches(calls.pages[i][j])
        read == IF output.kind = "raised"
                THEN SubSeq(calls.fetched, 1, Len(calls.fetched) - 1)
                ELSE calls.fetched
        found == { i \in 1..Len(read) : Matching(i) }
    IN  /\ \A j \in 1..Len(calls.fetched) : calls.fetched[j] = j
        /\ Len(calls.fetched) <= Len(calls.pages)
        /\ \A j \in 1..Len(calls.fetched) :
               Cardinality({ i \in 1..(j - 1) : Matching(i) }) < 10
        /\ Len(calls.all_results) = Cardinality(found)
        /\ \A e \in 1..Len(calls.all_results) :
               LET entry == calls.all_results[e]
               IN  /\ entry.page \in found
                   /\ Cardinality({ i \in found : i < entry.page }) = e - 1
                   /\ Len(entry.sections) \in 1..3
                   /\ \A j \in 1..Len(entry.sections) :
                          /\ Matches(entry.sections[j])
                          /\ InList(entry.sections[j], calls.pages[entry.page])
        /\ Len(output.entries) <= 10
        /\ output.kind = "results" => output.entries = calls.all_results

C20_Witness ==
    /\ calls.pc = "done"
    /\ output.kind = "results"
    /\ Len(calls.pages) = 12
    /\ calls.pages[2] = EmptyPage
    /\ Len(calls.fetched) = 11
    /\ Len(output.entries) = 10
    /\ Len(output.entries[1].sections) = 3
    /\ output.entries[10].page = 11

(***************************************************************************)
(* search.py: parse_sections.  A markdown document is a sequence of        *)
(* pieces: a run of two, three or four "#", a blank, a letter, an anchor   *)
(* tag <a name="x">, and the line break.                                   *)
(***************************************************************************)
\* markdown.split("\n")
RECURSIVE SplitLines(_, _)
SplitLines(s, cur) ==
    IF s = <<>> THEN <<cur>>
    ELSE IF Head(s) = "\n" THEN <<cur>> \o SplitLines(Tail(s), <<>>)
    ELSE SplitLines(Tail(s), Append(cur, Head(s)))

\* "\n".join(lines)
RECURSIVE JoinLines(_)
JoinLines(lines) ==
    IF lines = <<>> THEN <<>>
    ELSE IF Len(lines) = 1 THEN lines[1]
    ELSE lines[1] \o <<"\n">> \o JoinLines(Tail(lines))

\* re.match(r"^(#{2,3})\s+(.+)", line): two or three "#", whitespace, and at
\* least one more character; group 2 stripped is what follows, stripped.
heading_match(line) ==
    Len(line) >= 3 /\ line[1] \in {"##", "###"} /\ line[2] \in Whitespace

HeadingText(line) == strip(SubSeq(line, 3, Len(line)))

\* _ANCHOR_RE.search(line): the first anchor tag of the line, 0 if none.
anchor_match(line) ==
    LET at == { i \in 1..Len(line) : line[i] = "<a name=\"x\">" }
    IN  IF at = {} THEN 0 ELSE CHOOSE i \in at : \A j \in at : i <= j

NoHeading == [set |-> FALSE, text |-> <<>>]

\* The previous section is saved when there is one; the variant saves what
\* was gathered before the first heading too.
CloseSection_Always(sections, current_heading, current_lines) ==
    Append(sections, [heading |-> current_heading.text,
                      content |-> strip(JoinLines(current_lines))])

CloseSection(sections, current_heading, current_lines) ==
    IF current_heading.set
    THEN Append(sections, [heading |-> current_heading.text,
                           content |-> strip(JoinLines(current_lines))])
    ELSE sections

RECURSIVE SectionsLoop(_, _, _, _)
SectionsLoop(lines, sections, current_heading, current_lines) ==
    IF lines = <<>> THEN CloseSection(sections, current_heading, current_lines)
    ELSE LET line == Head(lines)
         IN  IF heading_match(line) \/ anchor_match(line) # 0
             THEN SectionsLoop(Tail(lines),
                               CloseSection(sections, current_heading, current_lines),
                               [set  |-> TRUE,
                                text |-> IF heading_match(line) THEN HeadingText(line)
                                         ELSE strip(<<"x">>)],
                               <<line>>)
             ELSE SectionsLoop(Tail(lines), sections, current_heading,
                               Append(current_lines, line))

parse_sections(markdown) ==
    SectionsLoop(SplitLines(markdown, <<>>), <<>>, NoHeading, <<>>)

DocTokens == {"##", "###", "####", " ", "t", "<a name=\"x\">", "\n"}

Documents == SeqsUpTo(DocTokens, MaxDocTokens)

InitSections ==
    /\ cache = <<>>
    /\ now = 0
    /\ calls = <<>>
    /\ input \in Documents
    /\ fn = "none"
    /\ output = <<>>

ApplyParseSections ==
    /\ fn = "none"
    /\ fn' = "parse_sections"
    /\ output' = parse_sections(input)
    /\ UNCHANGED <<cache, now, calls, input>>

NextSections == ApplyParseSections

SpecSections == InitSections /\ [][NextSections]_vars

\* C21: parse_sections gives one section for every line that is a level-2
\* or level-3 heading or holds an anchor, in document order; the content of
\* a section is its own line and the lines up to the next such line
\* (trimmed), the lines before the first belong to no section, and a
\* document without such a line gives the empty list.
C21_OneSectionPerTrigger ==
    fn = "parse_sections" =>
        LET lines == SplitLines(input, <<>>)
            IsHeading(l) == /\ Len(l) >= 3
                            /\ l[1] \in {"##", "###"}
                            /\ l[2] = " "
            HasAnchor(l) == \E i \in 1..Len(l) : l[i] = "<a name=\"x\">"
            triggers == { i \in 1..Len(lines) :
                            IsHeading(lines[i]) \/ HasAnchor(lines[i]) }
            Nth(k) == CHOOSE i \in triggers :
                          Cardinality({ j \in triggers : j < i }) = k - 1
            End(k) == IF k = Cardinality(triggers) THEN Len(lines)
                      ELSE Nth(k + 1) - 1
        IN  /\ Len(output) = Cardinality(triggers)
            /\ \A k \in 1..Len(output) :
                   /\ output[k].content
                          = strip(JoinLines(SubSeq(lines, Nth(k), End(k))))
                   /\ output[k].heading
                          = IF IsHeading(lines[Nth(k)])
                            THEN strip(SubSeq(lines[Nth(k)], 3, Len(lines[Nth(k)])))
                            ELSE <<"x">>

C21_Witness ==
    /\ fn = "parse_sections"
    /\ input = <<"t", "\n", "<a name=\"x\">", "t">>
    /\ output = << [heading |-> <<"x">>, content |-> <<"<a name=\"x\">", "t">>] >>

(***************************************************************************)
(* examples.py: parse_gallery on its own, over pages of up to MaxChunks    *)
(* chunks with or without a category name and with none, one or two        *)
(* preview objects, two of which may have the same path.                   *)
(***************************************************************************)
PreviewPool ==
    << [path |-> "@d3/bar-chart", title |-> "Bar chart", author |-> "D3"],
       [path |-> "@mbostock/tree", title |-> "Tree", author |-> "Mike Bostock"] >>

ChunkPool ==
    { [name |-> n, previews |-> ps] :
        n \in { <<>>, <<"b", "a">>, <<"B", "A">> },
        ps \in { <<>>, <<PreviewPool[1]>>, <<PreviewPool[1], PreviewPool[1]>>,
                 <<PreviewPool[1], PreviewPool[2]>> } }

InitGallery ==
    /\ cache = <<>>
    /\ now = 0
    /\ calls = <<>>
    /\ input \in SeqsUpTo(ChunkPool, MaxChunks)
    /\ fn = "none"
    /\ output = <<>>

ApplyParseGallery ==
    /\ fn = "none"
    /\ fn' = "parse_gallery"
    /\ output' = parse_gallery(input)
    /\ UNCHANGED <<cache, now, calls, input>>

NextGallery == ApplyParseGallery

SpecGallery == InitGallery /\ [][NextGallery]_vars

D3_MODULE_MAP == { D3_MODULES[i].name : i \in 1..Len(D3_MODULES) }

\* A lookup that does not try the name with "d3-" in front.
resolve_module_name_FullOnly(name) ==
    LET n == lower(strip(name))
    IN  IF n \in D3_MODULE_MAP THEN n ELSE <<>>

resolve_module_name(name) ==
    LET n == lower(strip(name))
        prefixed == <<"d", "3", "-">> \o n
    IN  IF n \in D3_MODULE_MAP THEN n
        ELSE IF prefixed \in D3_MODULE_MAP THEN prefixed
        ELSE <<>>

NameChars == {"d", "3", "-", "a", "A", " ", "/"}

Names(n) == SeqsUpTo(NameChars, n)

InitResolve ==
    /\ cache = <<>>
    /\ now = 0
    /\ calls = <<>>
    /\ input \in Names(MaxNameChars)
    /\ fn = "none"
    /\ output = <<>>

ApplyResolveModuleName ==
    /\ fn = "none"
    /\ fn' = "resolve_module_name"
    /\ output' = resolve_module_name(input)
    /\ UNCHANGED <<cache, now, calls, input>>

ApplyResolvePagePath ==
    /\ fn = "none"
    /\ fn' = "resolve_page_path"
    /\ output' = resolve_page_path(input)
    /\ UNCHANGED <<cache, now, calls, input>>

NextResolve ==
    \/ ApplyResolveModuleName
    \/ ApplyResolvePagePath

SpecResolve == InitResolve /\ [][NextResolve]_vars

\* C26: resolve_module_name gives the registered name for that name and for
\* the name without "d3-", in any letter case, and None for anything else;
\* resolve_page_path gives the registered path for that path with or
\* without its leading slash and None for anything else; every registered
\* page resolves to itself.  Surrounding blanks are not part of a name.
C26_ResolutionAgainstRegistry ==
    LET given == lower(strip(input))
        NamedBy(m) == given = m \/ given = SubSeq(m, 4, Len(m))
        PathedBy(q) == given = q \/ given = Tail(q)
    IN  /\ fn = "resolve_module_name" =>
              /\ \A m \in D3_MODULE_MAP : NamedBy(m) => output = m
              /\ (\A m \in D3_MODULE_MAP : ~NamedBy(m)) => output = <<>>
        /\ fn = "resolve_page_path" =>
              /\ \A q \in D3_PAGE_MAP : PathedBy(q) => output = q
              /\ (\A q \in D3_PAGE_MAP : ~PathedBy(q)) => output = <<>>
        /\ \A q \in D3_PAGE_MAP : resolve_page_path(q) = q
        /\ \A m \in D3_MODULE_MAP : resolve_module_name(m) = m

C26_Witness ==
    /\ fn = "resolve_module_name"
    /\ input = <<" ", "A">>
    /\ output = <<"d", "3", "-", "a">>

(***************************************************************************)
(* examples.py: the loops of _extract_function_body, one iteration of the  *)
(* innermost running loop per step.  calls holds the state tag (pc), the   *)
(* cursor i, the depth, the quote that opened the string being skipped,    *)
(* and whether a string or comment was left because the input ran out.     *)
(* The step that enters a string or comment is the first part of an outer  *)
(* iteration, and the step that leaves it includes the outer i += 1.       *)
(***************************************************************************)
ScanStart == [pc |-> "normal", i |-> 0, depth |-> 1, quote |-> "", cut |-> FALSE]

\* The condition of the outer while; the variant does not look at the depth.
LoopRuns_AnyDepth(src, st) == st.i < Len(src)

LoopRuns(src, st) == st.i < Len(src) /\ st.depth > 0

InitScanLoop ==
    /\ cache = <<>>
    /\ now = 0
    /\ calls = ScanStart
    /\ input \in UNION { BodiesOfLen(n) : n \in 0..MaxLoopTokens }
    /\ fn = "_extract_function_body"
    /\ output = <<>>

\* Lines 204-210 and the tests of lines 211 and 222: an iteration that
\* starts outside strings and comments.
NormalIteration ==
    /\ calls.pc = "normal"
    /\ LoopRuns(input, calls)
    /\ LET i  == calls.i
           ch == At(input, i)
       IN  calls' =
             IF ch = "{" THEN [calls EXCEPT !.depth = @ + 1, !.i = i + 1]
             ELSE IF ch = "}" THEN [calls EXCEPT !.depth = @ - 1, !.i = i + 1]
             ELSE IF ch \in Quotes
                  THEN [calls EXCEPT !.pc = "string", !.quote = ch, !.i = i + 1]
             ELSE IF ch = "/" /\ i + 1 < Len(input) /\ At(input, i + 1) = "/"
                  THEN [calls EXCEPT !.pc = "line", !.i = i + 1]
             ELSE IF ch = "/" /\ i + 1 < Len(input) /\ At(input, i + 1) = "*"
                  THEN [calls EXCEPT !.pc = "block", !.i = i + 2]
             ELSE [calls EXCEPT !.i = i + 1]
    /\ UNCHANGED <<cache, now, input, fn, output>>

\* Lines 215-221: the loop over a string literal.
StringIteration ==
    /\ calls.pc = "string"
    /\ LET i == calls.i
       IN  calls' =
             IF ~(i < Len(input))
             THEN [calls EXCEPT !.pc = "normal", !.i = i + 1, !.cut = TRUE]
             ELSE IF At(input, i) = "\\" /\ i + 1 < Len(input)
                  THEN [calls EXCEPT !.i = i + 2]
             ELSE IF At(input, i) = calls.quote
                  THEN [calls EXCEPT !.pc = "normal", !.i = i + 1]
             ELSE [calls EXCEPT !.i = i + 1]
    /\ UNCHANGED <<cache, now, input, fn, output>>

\* Lines 226-227: the loop over a line comment.
LineCommentIteration ==
    /\ calls.pc = "line"
    /\ LET i == calls.i
       IN  calls' =
             IF i < Len(input) /\ At(input, i) # "\n"
             THEN [calls EXCEPT !.i = i + 1]
             ELSE [calls EXCEPT !.pc = "normal", !.i = i + 1,
                                !.cut = ~(i < Len(input))]
    /\ UNCHANGED <<cache, now, input, fn, output>>

\* Lines 231-235: the loop over a block comment.
BlockCommentIteration ==
    /\ calls.pc = "block"
    /\ LET i == calls.i
       IN  calls' =
             IF i + 1 < Len(input)
                /\ ~(At(input, i) = "*" /\ At(input, i + 1) = "/")
             THEN [calls EXCEPT !.i = i + 1]
             ELSE [calls EXCEPT !.pc = "normal", !.i = i + 2,
                                !.cut = ~(i + 1 < Len(input))]
    /\ UNCHANGED <<cache, now, input, fn, output>>

\* Line 236: the loop is over.
ScanReturn ==
    /\ calls.pc = "normal"
    /\ ~LoopRuns(input, calls)
    /\ calls' = [calls EXCEPT !.pc = "done"]
    /\ output' = IF calls.depth = 0 THEN strip(SubSeq(input, 1, calls.i - 1))
                 ELSE <<>>
    /\ UNCHANGED <<cache, now, input, fn>>

NextScanLoop ==
    \/ NormalIteration
    \/ StringIteration
    \/ LineCommentIteration
    \/ BlockCommentIteration
    \/ ScanReturn

\* One thread runs the loops, so a step that can be taken is taken.
SpecScanLoop == InitScanLoop /\ [][NextScanLoop]_vars /\ WF_vars(NextScanLoop)

\* C27: the scanner comes to its return on every input; every iteration, in
\* each of the four states, moves the cursor forward; the depth is never
\* below zero; and a string or comment that the input leaves open ends with
\* the cursor at the end of the input.
C27_ScannerTerminates ==
    /\ <>(calls.pc = "done")
    /\ [][calls'.pc # "done" => calls'.i > calls.i]_vars
    /\ [](calls.depth >= 0)
    /\ [](calls.cut => ~(calls.i < Len(input)))
    /\ [](calls.pc = "done" => output = _extract_function_body(input))

C27_Witness ==
    /\ calls.pc = "done"
    /\ calls.cut
    /\ input = <<"{", "/", "*", "}">>
    /\ calls.depth = 2
    /\ calls.i = 5

(***************************************************************************)
(* examples.py: _unescape_js, three str.replace calls one after another.   *)
(* A text is a sequence of characters.                                     *)
(***************************************************************************)
\* str.replace for a two-character old text: the occurrences are taken from
\* the left and do not overlap.
RECURSIVE Replace2(_, _, _)
Replace2(s, old, new) ==
    IF Len(s) < 2 THEN s
    ELSE IF SubSeq(s, 1, 2) = old
         THEN new \o Replace2(SubSeq(s, 3, Len(s)), old, new)
    ELSE <<Head(s)>> \o Replace2(Tail(s), old, new)

_unescape_js(s) ==
    Replace2(Replace2(Replace2(s, <<"\\", "n">>, <<"\n">>),
                      <<"\\", "\"">>, <<"\"">>),
             <<"\\", "\\">>, <<"\\">>)

\* A backslash, the letter n, a quote, a newline and another letter.
EscChars == {"\\", "n", "\"", "\n", "a"}

EscTexts(n) == SeqsUpTo(EscChars, n)

InitUnescape ==
    /\ cache = <<>>
    /\ now = 0
    /\ calls = <<>>
    /\ input \in EscTexts(MaxEscChars)
    /\ fn = "none"
    /\ output = <<>>

ApplyUnescapeJs ==
    /\ fn = "none"
    /\ fn' = "_unescape_js"
    /\ output' = _unescape_js(input)
    /\ UNCHANGED <<cache, now, calls, input>>

NextUnescape == ApplyUnescapeJs

SpecUnescape == InitUnescape /\ [][NextUnescape]_vars

\* The escaped form of a text: a backslash is doubled, a quote gets a
\* backslash before it, a newline is written as a backslash and the letter n.
RECURSIVE EscapedForm(_)
EscapedForm(s) ==
    IF s = <<>> THEN <<>>
    ELSE (CASE Head(s) = "\\" -> <<"\\", "\\">>
            [] Head(s) = "\"" -> <<"\\", "\"">>
            [] Head(s) = "\n" -> <<"\\", "n">>
            [] OTHER          -> <<Head(s)>>)
         \o EscapedForm(Tail(s))

\* C30: unescaping the escaped form of a text gives the text back, whatever
\* the text, a backslash followed by the letter n included.
C30_UnescapeInvertsEscape ==
    fn = "_unescape_js" =>
        \A s \in EscTexts(Len(input)) : EscapedForm(s) = input => output = s

====
